---- MODULE Spec2Model ----
(***************************************************************************)
(* Model of the aisms-ai forecasting-and-decision service.                 *)
(*                                                                         *)
(* Part 1: the Forecast Model Manager (src/models/forecast_model.py):      *)
(*   the per-key artifact store under MODELS_DIR, _model_path,             *)
(*   _load_or_train and train_and_predict, run by concurrent callers.      *)
(*   Every access to shared state (the sales query, os.path.exists,        *)
(*   joblib.load, joblib.dump) is one atomic step; purely local work       *)
(*   (Prophet.fit, predict, the loop's `continue`) is folded into the step *)
(*   that precedes it.                                                     *)
(* Part 2: the HTTP handlers of src/app.py with their upserts, each        *)
(*   handler one atomic action (one request served at a time).             *)
(*                                                                         *)
(* Abstractions: a daily series for a key is  <<[ds, y]>>  over the days   *)
(* 1..n, its quantities given by the fixed table Qty; Prophet is a library *)
(* outside the repository: a fitted model is the history it was fitted on, *)
(* and its prediction a fixed function of that history (Yhat).  Ids are    *)
(* integers, as the signatures of the model functions declare them.  The   *)
(* generated_at / created_at timestamps of the stored rows are left out.   *)
(***************************************************************************)
EXTENDS Integers, Sequences, FiniteSets, TLC

VARIABLES
    sales,      \* sales DB: key <<warehouse, product>> -> number of daily points
    store,      \* MODELS_DIR: path -> artifact (the files that exist)
    pc,         \* per caller: position inside train_and_predict
    arg,        \* per caller: [w, days, pid] of the call
    df,         \* per caller: the frame read by pd.read_sql (product -> series)
    todo,       \* per caller: products of the groupby loop still to process
    model,      \* per caller: the local `model` of _load_or_train
    results,    \* per caller: the local `results` list
    trained,    \* per caller (history): products this call fitted and dumped
    loadFailed, \* per caller (history): products whose joblib.load raised
    sawAbsent,  \* per caller (history): products whose file did not exist
    sku_demand_forecast, \* table sku_demand_forecast (set of rows)
    reorder_suggestions, \* table reorder_suggestions (set of rows)
    stock,      \* approved stock movements: key -> current stock balance
    today,      \* CURRENT_DATE of the database
    batch,      \* (history) the result list of the last handler run
    resp,       \* the last HTTP response
    amounts,    \* sales of the warehouse, in date order: total_amount of each
    anomalies,  \* the list the last detect_sales_anomalies call returned
    inventory_optimization,  \* table inventory_optimization (set of rows)
    sales_anomaly_event,     \* table sales_anomaly_event (set of rows)
    probe       \* the last direct call of calc / _status and what it returned

\* the state of the database-backed endpoints
pipeVars == <<amounts, anomalies, inventory_optimization, sales_anomaly_event,
             probe>>
dbVars == <<sku_demand_forecast, reorder_suggestions, stock, today, batch, resp,
            pipeVars>>

vars == <<sales, store, pc, arg, df, todo, model, results, trained, loadFailed,
          sawAbsent, dbVars>>

----------------------------------------------------------------------------
(* Bounds and data of the model *)

MaxLen == 4                  \* longest daily series of a key

Company == 1
Warehouses == {1, 11}
Products == {1, 11}
Horizons == {1, 2}           \* values of days_ahead tried
NoProduct == 0               \* product_id = None
Callers == {1, 2}            \* concurrent callers of train_and_predict

\* the (warehouse, product) pairs that have sale lines at all
Keys == {<<1, 1>>, <<1, 11>>, <<11, 1>>}

\* points of each key when the service starts: product 1 of warehouse 1 has
\* too few days of sales to be forecast
InitLen(k) == IF k = <<1, 1>> THEN 2 ELSE 3

\* the keys that keep selling while the service runs
Selling == {<<1, 11>>}

\* SUM(sl.quantity) of key k on day d
Qty(k, d) == 1 + ((k[1] + 2 * k[2] + 2 * d) % 7)

\* CURRENT_DATE when the service starts: the day after the first sales days
FirstDay == 4

\* the last CURRENT_DATE of the runs
MaxDay == 5

\* keys with stock movements, the size of a movement, the largest balance
Stocked == {<<11, 1>>, <<11, 11>>}
StockLot == 5
MaxStock == 5

\* values of lead_time_days tried (NoValue: the default)
LeadTimes == {-1, 4}

\* the warehouses the forecast endpoint is asked about
ApiWarehouses == {1}

\* the most rows a transaction has written when it fails
MaxBatch == 2

\* sales of the anomaly runs: how many, their amounts, how many may differ
\* from the first, and the warehouse they belong to
MaxSales == 11
AmountValues == {2, 12}
MaxUnusual == 1
SalesWarehouse == 1

\* decision_function scores a fitted forest may give (units of 0.00001)
IsoScores == {-10000, 20004}
Forests == [AmountValues -> IsoScores]
NoForest == [x \in AmountValues |-> 0]

NoProbe == [fn |-> "none"]

NoResponse == [status |-> "none", code |-> 0, count |-> 0, message |-> ""]

MODEL_VERSION == "v1.0"
MIN_TS_POINTS == 3

----------------------------------------------------------------------------
(* Helpers *)

Min(S) == CHOOSE x \in S : \A y \in S : x <= y
MaxOf(S) == CHOOSE x \in S : \A y \in S : x >= y

RECURSIVE SortedSeq(_)
SortedSeq(S) == IF S = {} THEN <<>> ELSE <<Min(S)>> \o SortedSeq(S \ {Min(S)})

\* DataFrame.tail(n)
Tail_n(s, n) ==
    IF n <= 0 THEN <<>>
    ELSE IF n >= Len(s) THEN s
    ELSE SubSeq(s, Len(s) - n + 1, Len(s))

DigitChars == <<"0", "1", "2", "3", "4", "5", "6", "7", "8", "9">>

\* str(n) for n >= 0, as a sequence of characters
RECURSIVE Str(_)
Str(n) == IF n < 10 THEN <<DigitChars[n + 1]>>
          ELSE Str(n \div 10) \o <<DigitChars[(n % 10) + 1]>>

----------------------------------------------------------------------------
(* forecast_model.py *)

\* a path with the separators dropped
ModelPathNoSeparators(company_id, warehouse_id, product_id) ==
    <<"forecast">> \o Str(company_id) \o Str(warehouse_id) \o Str(product_id)
        \o <<".pkl">>

\* f"forecast_company_{c}_warehouse_{w}_product_{p}.pkl" under MODELS_DIR
_model_path(company_id, warehouse_id, product_id) ==
    <<"forecast_company_">> \o Str(company_id) \o <<"_warehouse_">>
        \o Str(warehouse_id) \o <<"_product_">> \o Str(product_id) \o <<".pkl">>

\* the daily series of key k when it has n points (ORDER BY product_id, ds)
Series(k, n) == [d \in 1..n |-> [ds |-> d, y |-> Qty(k, d)]]

\* `model = None`
NoModel == [ok |-> FALSE, history |-> <<>>]

\* a file that joblib.load cannot read
Corrupted == [ok |-> FALSE, history |-> <<>>]

\* Prophet().fit(df): the fitted model keeps its training history
Fit(series) == [ok |-> TRUE, history |-> series]

\* yhat of a fitted model on day ds (stands for Prophet's trend; may be < 0)
Yhat(m, ds) ==
    LET h == m.history
        last == h[Len(h)]
    IN  last.y + (last.y - h[1].y) * (ds - last.ds)

\* model.make_future_dataframe(periods): the history's dates, then `periods`
\* consecutive days after the last date of the history
make_future_dataframe(m, periods) ==
    LET h == m.history
    IN  [i \in 1..Len(h) |-> h[i].ds] \o [i \in 1..periods |-> h[Len(h)].ds + i]

\* model.predict(future).tail(days_ahead)[["ds", "yhat"]]
Predict(m, days_ahead) ==
    LET future == make_future_dataframe(m, days_ahead)
        forecast == [i \in 1..Len(future) |-> [ds |-> future[i], yhat |-> Yhat(m, future[i])]]
    IN  Tail_n(forecast, days_ahead)

\* the rows train_and_predict appends for one product
ForecastRows(w, p, m, days_ahead) ==
    LET tail == Predict(m, days_ahead)
    IN  [i \in 1..Len(tail) |->
            [company_id |-> Company, warehouse_id |-> w, product_id |-> p,
             forecast_date |-> tail[i].ds, predicted_quantity |-> tail[i].yhat,
             model_version |-> MODEL_VERSION]]

\* pd.read_sql(query): the series of every product of the scope that has rows
ReadSales(w, pid) ==
    LET ps == {p \in Products : /\ <<w, p>> \in Keys
                                /\ sales[<<w, p>>] > 0
                                /\ (pid = NoProduct \/ p = pid)}
    IN  [p \in ps |-> Series(<<w, p>>, sales[<<w, p>>])]

\* a loop that forgets the minimum
TrainableNoMinimum(frame) == SortedSeq(DOMAIN frame)

\* the groups of df.groupby("product_id") that pass `len(grp) < MIN_TS_POINTS`
Trainable(frame) ==
    SelectSeq(SortedSeq(DOMAIN frame), LAMBDA p : ~(Len(frame[p]) < MIN_TS_POINTS))

\* a failed load that is not caught
OnLoadErrorRaise == "raise"

\* what `except Exception` of _load_or_train does with a failed load
OnLoadError == "retrain"

\* a manager that refits on every call
MustTrainAlways(m) == TRUE

\* line 29: `if model is None`
MustTrain(m) == ~m.ok

\* a dump that keeps a file that is already there
DumpIfAbsent(files, path, m) ==
    [f \in DOMAIN files \cup {path} |-> IF f \in DOMAIN files THEN files[f] ELSE m]

\* joblib.dump(model, path): create or overwrite the file
Dump(files, path, m) ==
    [f \in DOMAIN files \cup {path} |-> IF f = path THEN m ELSE files[f]]

Exists(files, path) == path \in DOMAIN files

Cur(r) == Head(todo[r])
CurPath(r) == _model_path(Company, arg[r].w, Cur(r))

NoArg == [w |-> 0, days |-> 0, pid |-> NoProduct]
NoRequest == [c |-> 0, w |-> 0, days |-> 0, pid |-> NoProduct]
EmptyFrame == [p \in {} |-> <<>>]

\* train_and_predict lines 60-79: query, `if df.empty: return []`, groupby
Begin(r, w, days, pid) ==
    /\ pc[r] = "idle"
    /\ LET frame == ReadSales(w, pid)
           groups == Trainable(frame)
       IN  /\ arg' = [arg EXCEPT ![r] = [w |-> w, days |-> days, pid |-> pid]]
           /\ df' = [df EXCEPT ![r] = frame]
           /\ todo' = [todo EXCEPT ![r] = groups]
           /\ pc' = [pc EXCEPT ![r] = IF groups = <<>> THEN "returned" ELSE "exists"]
    /\ results' = [results EXCEPT ![r] = <<>>]
    /\ trained' = [trained EXCEPT ![r] = {}]
    /\ loadFailed' = [loadFailed EXCEPT ![r] = {}]
    /\ sawAbsent' = [sawAbsent EXCEPT ![r] = {}]
    /\ model' = [model EXCEPT ![r] = NoModel]
    /\ UNCHANGED <<sales, store, dbVars>>

\* lines 84-97 for the current product, then the next group of the loop
Advance(r, m) ==
    /\ results' = [results EXCEPT ![r] =
                      @ \o ForecastRows(arg[r].w, Cur(r), m, arg[r].days)]
    /\ todo' = [todo EXCEPT ![r] = Tail(@)]
    /\ pc' = [pc EXCEPT ![r] = IF Tail(todo[r]) = <<>> THEN "returned" ELSE "exists"]
    /\ model' = [model EXCEPT ![r] = NoModel]

\* lines 29-31: `if model is None:` fit a new model, to be dumped
TrainNew(r) ==
    /\ pc' = [pc EXCEPT ![r] = "dump"]
    /\ model' = [model EXCEPT ![r] = Fit(df[r][Cur(r)])]
    /\ UNCHANGED <<todo, results>>

\* _load_or_train line 24: os.path.exists(model_path); absent => lines 29-31
CheckExists(r) ==
    /\ pc[r] = "exists"
    /\ IF Exists(store, CurPath(r))
       THEN /\ pc' = [pc EXCEPT ![r] = "load"]
            /\ UNCHANGED <<model, todo, results, sawAbsent>>
       ELSE /\ sawAbsent' = [sawAbsent EXCEPT ![r] = @ \cup {Cur(r)}]
            /\ IF MustTrain(NoModel) THEN TrainNew(r) ELSE Advance(r, NoModel)
    /\ UNCHANGED <<sales, store, arg, df, trained, loadFailed,
                   dbVars>>

\* _load_or_train lines 25-29: joblib.load succeeds; lines 84-97 follow
LoadOk(r) ==
    /\ pc[r] = "load"
    /\ Exists(store, CurPath(r))
    /\ store[CurPath(r)].ok
    /\ IF MustTrain(store[CurPath(r)])
       THEN TrainNew(r)
       ELSE Advance(r, store[CurPath(r)])
    /\ UNCHANGED <<sales, store, arg, df, trained, loadFailed, sawAbsent,
                   dbVars>>

\* _load_or_train lines 25-31: joblib.load raises; model = None; fit
LoadFails(r) ==
    /\ pc[r] = "load"
    /\ ~(Exists(store, CurPath(r)) /\ store[CurPath(r)].ok)
    /\ loadFailed' = [loadFailed EXCEPT ![r] = @ \cup {Cur(r)}]
    /\ IF OnLoadError = "retrain"
       THEN IF MustTrain(NoModel) THEN TrainNew(r) ELSE Advance(r, NoModel)
       ELSE /\ pc' = [pc EXCEPT ![r] = "raised"]
            /\ UNCHANGED <<model, todo, results>>
    /\ UNCHANGED <<sales, store, arg, df, trained, sawAbsent,
                   dbVars>>

\* _load_or_train line 32: joblib.dump(model, model_path); lines 84-97 follow
DumpModel(r) ==
    /\ pc[r] = "dump"
    /\ store' = Dump(store, CurPath(r), model[r])
    /\ trained' = [trained EXCEPT ![r] = @ \cup {Cur(r)}]
    /\ Advance(r, model[r])
    /\ UNCHANGED <<sales, arg, df, loadFailed, sawAbsent, dbVars>>

\* line 99: return results (the caller takes the list; the locals are gone)
Return(r) ==
    /\ pc[r] = "returned"
    /\ pc' = [pc EXCEPT ![r] = "idle"]
    /\ arg' = [arg EXCEPT ![r] = NoArg]
    /\ df' = [df EXCEPT ![r] = EmptyFrame]
    /\ results' = [results EXCEPT ![r] = <<>>]
    /\ trained' = [trained EXCEPT ![r] = {}]
    /\ loadFailed' = [loadFailed EXCEPT ![r] = {}]
    /\ sawAbsent' = [sawAbsent EXCEPT ![r] = {}]
    /\ UNCHANGED <<sales, store, todo, model, dbVars>>

----------------------------------------------------------------------------
(* train_and_predict run start to end inside one request *)

\* _load_or_train(df, model_path) lines 22-33, on the files `files`
_load_or_train(files, series, path) ==
    LET loaded == IF Exists(files, path) /\ files[path].ok THEN files[path]
                  ELSE NoModel
    IN  IF MustTrain(loaded)
        THEN [model |-> Fit(series), files |-> Dump(files, path, Fit(series))]
        ELSE [model |-> loaded, files |-> files]

\* the loop of lines 73-97 over the groups still to process
RECURSIVE TrainLoop(_, _, _, _, _, _)
TrainLoop(files, frame, groups, w, days_ahead, acc) ==
    IF groups = <<>> THEN [results |-> acc, files |-> files]
    ELSE LET p == Head(groups)
             lt == _load_or_train(files, frame[p], _model_path(Company, w, p))
         IN  TrainLoop(lt.files, frame, Tail(groups), w, days_ahead,
                       acc \o ForecastRows(w, p, lt.model, days_ahead))

\* train_and_predict(company_id, warehouse_id, days_ahead, product_id)
train_and_predict(w, days_ahead, pid) ==
    LET frame == ReadSales(w, pid)
    IN  TrainLoop(store, frame, Trainable(frame), w, days_ahead, <<>>)

----------------------------------------------------------------------------
(* app.py: persistence of a result list *)

NoError == "none"
\* messages of the exceptions db.execute / db.commit can raise
DbErrors == {"connection lost", "deadlock detected"}

\* ON CONFLICT (index_elements): the stored row that conflicts with `row`
SameKey(t, row, index_elements) == \A f \in index_elements : t[f] = row[f]

\* DO UPDATE SET ...: only the columns of set_ take the new (excluded) value
Update(t, row, set_) == [f \in DOMAIN t |-> IF f \in set_ THEN row[f] ELSE t[f]]

\* a statement that replaces the table by the row
ApplyRowAfresh(tbl, row, index_elements, set_) == {row}

\* INSERT ... ON CONFLICT DO UPDATE of one row
ApplyRow(tbl, row, index_elements, set_) ==
    LET hit == {t \in tbl : SameKey(t, row, index_elements)}
    IN  IF hit = {} THEN tbl \cup {row}
        ELSE (tbl \ hit) \cup {Update(t, row, set_) : t \in hit}

\* the first n rows of insert(...).values(rows) applied in order
RECURSIVE ApplyRows(_, _, _, _, _)
ApplyRows(tbl, rows, n, index_elements, set_) ==
    IF n = 0 THEN tbl
    ELSE ApplyRow(ApplyRows(tbl, rows, n - 1, index_elements, set_), rows[n],
                  index_elements, set_)

\* a rollback that keeps what the transaction had written
RollbackKeepsWork(committed, working) == working

\* db.rollback(): the table is again what it was when the session began
Rollback(committed, working) == committed

Response(status, code, count, message) ==
    [status |-> status, code |-> code, count |-> count, message |-> message]

\* try: db.execute(stmt); db.commit() / except Exception as e: db.rollback().
\* e is the exception raised (NoError: none), at the number of rows the
\* transaction had written when it was raised.
Persist(tbl, rows, index_elements, set_, e, at) ==
    IF e = NoError
    THEN [table |-> ApplyRows(tbl, rows, Len(rows), index_elements, set_),
          resp |-> Response("success", 200, Len(rows), "")]
    ELSE [table |-> Rollback(tbl, ApplyRows(tbl, rows, at, index_elements, set_)),
          resp |-> Response("error", 500, 0, e)]

\* what a handler run leaves in `batch`
Run(kind, req, data, rows, e, at) ==
    [seq |-> 1 - batch.seq, kind |-> kind, req |-> req, data |-> data,
     results |-> rows, error |-> e, applied |-> at]

NoWarehouse == 0             \* warehouse_id missing from the body
NoCompany == 0               \* company_id missing from the body

\* a handler that persists whatever list it gets
NoDataNever(rows) == FALSE

\* `if not predictions` / `if not results`: the pipeline returned nothing
NoData(rows) == rows = <<>>

\* a validation that lets every request through
RejectedNever(company_id, warehouse_id) == FALSE

\* `if not company_id or not warehouse_id`
Rejected(company_id, warehouse_id) ==
    company_id = NoCompany \/ warehouse_id = NoWarehouse

\* the choices of (e, at) that make sense: nothing is written before an
\* exception that is not raised, and a rejected request opens no session
Raises(c, w, e, at) ==
    /\ e = NoError => at = 0
    /\ (c = NoCompany \/ w = NoWarehouse) => e = NoError

mgrVars == <<pc, arg, df, todo, model, results, trained, loadFailed, sawAbsent>>

\* index_elements and set_ of the forecast upsert (app.py lines 85-96)
ForecastIndex ==
    {"company_id", "product_id", "warehouse_id", "forecast_date", "model_version"}
ForecastSet == {"predicted_quantity"}

\* POST /api/v1/forecast
forecast(c, w, days, pid, e, at) ==
    LET req == [c |-> c, w |-> w, days |-> days, pid |-> pid]
    IN
    /\ Raises(c, w, e, at)
    /\ IF Rejected(c, w)
       THEN /\ resp' = Response("error", 400, 0,
                                "company_id and warehouse_id are required")
            /\ batch' = Run("forecast", req, EmptyFrame, <<>>, NoError, 0)
            /\ UNCHANGED <<store, sku_demand_forecast>>
       ELSE LET tp == train_and_predict(w, days, pid)
                predictions == tp.results
            IN  /\ store' = tp.files
                /\ IF NoData(predictions)
                   THEN /\ resp' = Response("ok", 200, 0,
                               "No trainable SKUs found (insufficient history).")
                        /\ batch' = Run("forecast", req, ReadSales(w, pid),
                                        predictions, NoError, 0)
                        /\ UNCHANGED sku_demand_forecast
                   ELSE /\ at <= Len(predictions)
                        /\ LET done == Persist(sku_demand_forecast, predictions,
                                               ForecastIndex, ForecastSet, e, at)
                           IN  /\ sku_demand_forecast' = done.table
                               /\ resp' = done.resp
                        /\ batch' = Run("forecast", req, ReadSales(w, pid),
                                        predictions, e,
                                        IF e = NoError THEN Len(predictions) ELSE at)
    /\ UNCHANGED <<sales, mgrVars, reorder_suggestions, stock, today, pipeVars>>

----------------------------------------------------------------------------
(* reorder_model.py.  Quantities of the reorder rows are fixed-point numbers *)
(* in thousandths (the resolution of the code's round(x, 3)); the forecast   *)
(* quantities and the stock balances are whole units.                         *)

Z95 == 1650                  \* 1.65 in thousandths
LEAD_TIME_DAYS == 7
NoValue == -1                \* an optional field missing from the body (None)

Max0(x) == IF x < 0 THEN 0 ELSE x

RECURSIVE ISqrtIn(_, _, _)
ISqrtIn(n, lo, hi) ==
    IF lo >= hi THEN lo
    ELSE LET mid == (lo + hi + 1) \div 2
         IN  IF mid * mid <= n THEN ISqrtIn(n, mid, hi) ELSE ISqrtIn(n, lo, mid - 1)

\* floor of the square root
ISqrt(n) == ISqrtIn(n, 0, 46340)

RECURSIVE SumOver(_, _)
SumOver(f, S) ==
    IF S = {} THEN 0
    ELSE LET x == CHOOSE y \in S : TRUE IN f[x] + SumOver(f, S \ {x})

\* lines 30-56: the forecast rows of the window, negatives clamped to 0
forecast_df(w, horizon_days) ==
    LET rows == {t \in sku_demand_forecast :
                    /\ t.company_id = Company
                    /\ t.warehouse_id = w
                    /\ t.forecast_date >= today
                    /\ t.forecast_date < today + horizon_days}
    IN  {[t EXCEPT !.predicted_quantity = Max0(@)] : t \in rows}

\* lines 61-68: mean and population standard deviation per product
avg_daily_demand(rows) ==
    Max0((1000 * SumOver([t \in rows |-> t.predicted_quantity], rows))
            \div Cardinality(rows))

std_daily_demand(rows) ==
    LET mean == avg_daily_demand(rows)
        sq == [t \in rows |-> (1000 * t.predicted_quantity - mean)
                                 * (1000 * t.predicted_quantity - mean)]
    IN  Max0(ISqrt(SumOver(sq, rows) \div Cardinality(rows)))

\* a calc whose reorder point takes the safety stock off the lead-time demand
calc_less_safety(avg_d, std_d, stock_in_hand, z, lt) ==
    LET safety_stock == Max0((((z * Max0(std_d)) \div 1000) * ISqrt(lt * 1000000)) \div 1000)
        reorder_point == Max0(Max0(avg_d) * lt - safety_stock)
    IN  [safety_stock |-> safety_stock, reorder_point |-> reorder_point,
         suggested_qty |-> Max0(reorder_point - Max0(1000 * stock_in_hand))]

\* lines 90-108: calc(row)
calc(avg_row, std_row, stock_in_hand, z, lt) ==
    LET avg_d == Max0(avg_row)
        std_d == Max0(std_row)
        stk == Max0(1000 * stock_in_hand)
        safety_stock == Max0((((z * std_d) \div 1000) * ISqrt(lt * 1000000)) \div 1000)
        reorder_point == Max0(avg_d * lt + safety_stock)
        suggested_qty == Max0(reorder_point - stk)
    IN  [safety_stock |-> safety_stock, reorder_point |-> reorder_point,
         suggested_qty |-> suggested_qty]

\* generate_reorder_suggestions(company_id, warehouse_id, z, lt, horizon_days)
generate_reorder_suggestions(w, service_level_z, lead_time_days, horizon_days) ==
    LET z == IF service_level_z # NoValue THEN service_level_z ELSE Z95
        lt == IF lead_time_days # NoValue THEN lead_time_days ELSE LEAD_TIME_DAYS
        fdf == forecast_df(w, horizon_days)
        prods == SortedSeq({t.product_id : t \in fdf})
        Row(p) ==
            LET rows == {t \in fdf : t.product_id = p}
                avg_d == avg_daily_demand(rows)
                std_d == std_daily_demand(rows)
                stock_in_hand == IF <<w, p>> \in DOMAIN stock THEN stock[<<w, p>>] ELSE 0
                c == calc(avg_d, std_d, stock_in_hand, z, lt)
            IN  [company_id |-> Company, warehouse_id |-> w, product_id |-> p,
                 avg_daily_demand |-> avg_d, std_daily_demand |-> std_d,
                 reorder_point |-> c.reorder_point, safety_stock |-> c.safety_stock,
                 suggested_qty |-> c.suggested_qty,
                 stock_in_hand |-> 1000 * stock_in_hand,
                 model_version |-> MODEL_VERSION]
    IN  [i \in 1..Len(prods) |-> Row(prods[i])]

\* index_elements and set_ of the reorder upsert (app.py lines 216-229)
ReorderIndex == {"company_id", "warehouse_id", "product_id", "model_version"}
ReorderSet == {"reorder_point", "safety_stock", "suggested_qty"}

\* POST /api/v1/reorders
compute_reorders(c, w, lead_time_days, horizon_days, e, at) ==
    LET req == [c |-> c, w |-> w, days |-> horizon_days, lt |-> lead_time_days]
    IN
    /\ Raises(c, w, e, at)
    /\ IF Rejected(c, w)
       THEN /\ resp' = Response("error", 400, 0,
                                "company_id and warehouse_id are required")
            /\ batch' = Run("reorders", req, {}, <<>>, NoError, 0)
            /\ UNCHANGED reorder_suggestions
       ELSE LET rows == generate_reorder_suggestions(w, NoValue, lead_time_days,
                                                     horizon_days)
                data == [forecasts |-> forecast_df(w, horizon_days), stock |-> stock]
            IN  IF NoData(rows)
                THEN /\ resp' = Response("ok", 200, 0,
                        "No forecasts available; generate /api/v1/forecast first.")
                     /\ batch' = Run("reorders", req, data, rows, NoError, 0)
                     /\ UNCHANGED reorder_suggestions
                ELSE /\ at <= Len(rows)
                     /\ LET done == Persist(reorder_suggestions, rows,
                                            ReorderIndex, ReorderSet, e, at)
                        IN  /\ reorder_suggestions' = done.table
                            /\ resp' = done.resp
                     /\ batch' = Run("reorders", req, data, rows, e,
                                     IF e = NoError THEN Len(rows) ELSE at)
    /\ UNCHANGED <<sales, store, mgrVars, sku_demand_forecast, stock, today,
                   pipeVars>>

----------------------------------------------------------------------------
(* anomaly_model.py.  Amounts are whole units; z-scores are in hundredths,   *)
(* outlier scores and severities in units of 0.00001, the stored score in    *)
(* units of 0.0001 (round(severity, 4)).  The flag of the statistical        *)
(* detector is decided on the quotient itself, which is exact except where   *)
(* RoundedAboveThree says otherwise.  IsolationForest is a                   *)
(* library outside the repository: a fitted forest is a function from the    *)
(* feature value (the amount) to its decision_function score, any of         *)
(* Forests; its label is -1 exactly when that score is negative.             *)

Abs(x) == IF x < 0 THEN -x ELSE x

\* line 82: mu = df["total_amount"].mean(), as the sum n * mu
TotalAmount(a) == SumOver(a, DOMAIN a)

\* n * (x - mu) for the amount x of a series of n sales with sum total
Deviation(x, n, total) == n * x - total

\* line 83: sigma = std(ddof=0), as n^3 * sigma^2: the squared deviation is
\* the mean of the squared distances to the mean
SumSqDev(a) ==
    LET total == TotalAmount(a)
    IN  SumOver([j \in DOMAIN a |-> Deviation(a[j], Len(a), total)
                                      * Deviation(a[j], Len(a), total)], DOMAIN a)

\* line 85: 0 if sigma == 0 else (x - mu) / sigma, in hundredths, for the
\* scaled distance d of a sale and the scaled deviation ssd of n sales
z_score(d, n, ssd) ==
    IF ssd = 0 THEN 0
    ELSE LET mag == ISqrt((10000 * n * d * d) \div ssd)
         IN  IF d < 0 THEN -mag ELSE mag

\* lines 82-85 in binary64: mu is a rounded sum over n, sigma the root of a
\* rounded mean of rounded squares.  For a sale of amount x among n sales of
\* sum total that lies exactly 3 deviations from the mean, the quotient
\* (x - mu) / sigma of these <<x, n, total>> is 3.0000000000000013 (one sale
\* of 5.0 among nine of 4.0: mu = 4.1, 5.0 - mu = 0.9000000000000004, and
\* sigma = 0.3 from squares of 0.009999999999999929 and 0.8100000000000006;
\* likewise one sale of 4.0 among nine of 5.0); with one sale of 12.0 among
\* nine of 2.0 every step is exact and the quotient is 3.0.
RoundedAboveThree == {<<5, 10, 41>>, <<4, 10, 49>>}

\* a detector that flags from 2 deviations on
is_z_anomaly_two_sigma(x, n, total, ssd) ==
    LET d == Deviation(x, n, total)
    IN  ssd # 0 /\ n * d * d > 4 * ssd

\* line 86: abs(z_score) > 3.0, on the quotient as line 85 computed it
is_z_anomaly(x, n, total, ssd) ==
    LET d == Deviation(x, n, total)
    IN  /\ ssd # 0
        /\ \/ n * d * d > 9 * ssd
           \/ n * d * d = 9 * ssd /\ <<x, n, total>> \in RoundedAboveThree

\* a detector that is fit from 10 points on
FitsForestFromTen(n) == n >= 10

\* line 91: `if len(df) > 10`
FitsForest(n) == n > 10

NEUTRAL_SCORE == 50000       \* 0.5 (line 97)

\* lines 91-98: iso_score and is_iso_anomaly of a sale of amount x among n
iso_score(x, n, forest) ==
    IF FitsForest(n) THEN forest[x] ELSE NEUTRAL_SCORE

is_iso_anomaly(x, n, forest) ==
    IF FitsForest(n) THEN forest[x] < 0 ELSE FALSE

\* line 106: severity = |z| + (1 - iso_score), in units of 0.00001
severity(z, iso) == 1000 * Abs(z) + (100000 - iso)

\* lines 109-114: level_of(row)
level_of(is_anomaly, sev) ==
    IF ~is_anomaly THEN "INFO"
    ELSE IF sev > 400000 THEN "ALERT"
    ELSE "WARN"

\* round(x, 4) of a value in units of 0.00001, in units of 0.0001
Round4(x) == (x + 5) \div 10

\* build_reason(row, mu, sigma): the sentences it joins
build_reason(is_z, is_iso, sev) ==
    (IF is_z THEN <<"Z-score anomaly">> ELSE <<>>)
        \o (IF is_iso THEN <<"Isolation Forest flagged">> ELSE <<>>)
        \o (IF sev > 500000 THEN <<"Severity extremely high">>
            ELSE IF sev > 300000 THEN <<"Severity moderately high">>
            ELSE <<>>)

\* the frame df after lines 77-116
AnomalyFrame(a, forest) ==
    LET n == Len(a)
        total == TotalAmount(a)
        ssd == SumSqDev(a)
    IN  [i \in DOMAIN a |->
            LET d == Deviation(a[i], n, total)
                z == z_score(d, n, ssd)
                is_z == is_z_anomaly(a[i], n, total, ssd)
                iso == iso_score(a[i], n, forest)
                is_iso == is_iso_anomaly(a[i], n, forest)
                sev == severity(z, iso)
            IN  [sale_id |-> i, total_amount |-> a[i], z_score |-> z,
                 is_z_anomaly |-> is_z, iso_score |-> iso,
                 is_iso_anomaly |-> is_iso, is_anomaly |-> is_z \/ is_iso,
                 severity |-> sev, level |-> level_of(is_z \/ is_iso, sev)]]

\* a loop that emits every row
EmittedAlways(row) == TRUE

\* lines 123-124: `if not row["is_anomaly"]: continue`
Emitted(row) == row.is_anomaly

\* lines 121-142: the result rows
AnomalyRows(w, frame) ==
    LET kept == SelectSeq(frame, Emitted)
    IN  [k \in DOMAIN kept |->
            [company_id |-> Company, warehouse_id |-> w,
             sale_id |-> kept[k].sale_id, total_amount |-> kept[k].total_amount,
             policy_code |-> "Z+ISO", score |-> Round4(kept[k].severity),
             level |-> kept[k].level,
             reason |-> build_reason(kept[k].is_z_anomaly, kept[k].is_iso_anomaly,
                                     kept[k].severity)]]

\* the sales of warehouse w the query of lines 52-72 returns
SalesOf(w) == IF w = SalesWarehouse THEN amounts ELSE <<>>

\* detect_sales_anomalies(company_id, warehouse_id), with the forest that
\* IsolationForest.fit gives
detect_sales_anomalies(w, forest) ==
    /\ LET a == SalesOf(w)
           frame == IF a = <<>> THEN <<>> ELSE AnomalyFrame(a, forest)
       IN  anomalies' = [ran |-> TRUE, w |-> w, series |-> a, forest |-> forest,
                         df |-> frame, results |-> AnomalyRows(w, frame)]
    /\ UNCHANGED <<sales, store, mgrVars, sku_demand_forecast, reorder_suggestions,
                   stock, today, batch, resp, amounts, inventory_optimization, probe,
                   sales_anomaly_event>>

\* index_elements and set_ of the anomaly upsert (app.py lines 134-143);
\* created_at, the time of the run, is not a column of the model's rows
AnomalyIndex == {"sale_id", "policy_code"}
AnomalySet == {"score", "level"}

\* POST /api/v1/anomaly/sales (app.py lines 108-152)
detect_anomaly_sales(c, w, forest, e, at) ==
    LET req == [c |-> c, w |-> w]
    IN
    /\ Raises(c, w, e, at)
    /\ IF Rejected(c, w)
       THEN /\ resp' = Response("error", 400, 0,
                                "company_id & warehouse_id required")
            /\ batch' = Run("anomaly", req, <<>>, <<>>, NoError, 0)
            /\ UNCHANGED <<anomalies, sales_anomaly_event>>
       ELSE LET a == SalesOf(w)
                frame == IF a = <<>> THEN <<>> ELSE AnomalyFrame(a, forest)
                rows == AnomalyRows(w, frame)
            IN  /\ anomalies' = [ran |-> TRUE, w |-> w, series |-> a,
                                  forest |-> forest, df |-> frame, results |-> rows]
                /\ IF NoData(rows)
                   THEN /\ resp' = Response("ok", 200, 0, "No anomalies found")
                        /\ batch' = Run("anomaly", req, a, rows, NoError, 0)
                        /\ UNCHANGED sales_anomaly_event
                   ELSE /\ at <= Len(rows)
                        /\ LET done == Persist(sales_anomaly_event, rows,
                                               AnomalyIndex, AnomalySet, e, at)
                           IN  /\ sales_anomaly_event' = done.table
                               /\ resp' = done.resp
                        /\ batch' = Run("anomaly", req, a, rows, e,
                                        IF e = NoError THEN Len(rows) ELSE at)
    /\ UNCHANGED <<sales, store, mgrVars, sku_demand_forecast, reorder_suggestions,
                   stock, today, amounts, inventory_optimization, probe>>

\* a sale of the warehouse with total amount x is confirmed
AddSaleAmount(x) ==
    /\ Len(amounts) < MaxSales
    /\ Cardinality({i \in DOMAIN amounts : amounts[i] # amounts[1]})
          + (IF amounts # <<>> /\ x # amounts[1] THEN 1 ELSE 0) <= MaxUnusual
    /\ amounts' = Append(amounts, x)
    /\ UNCHANGED <<sales, store, mgrVars, sku_demand_forecast, reorder_suggestions,
                   stock, today, batch, resp, anomalies, inventory_optimization, probe,
                   sales_anomaly_event>>

----------------------------------------------------------------------------
(* Environment *)

\* a new day of PAID/DELIVERED sales of key k reaches the sales tables
AddSale(k) ==
    /\ k \in Selling
    /\ sales[k] < MaxLen
    /\ sales' = [sales EXCEPT ![k] = @ + 1]
    /\ UNCHANGED <<store, pc, arg, df, todo, model, results, trained, loadFailed,
                   sawAbsent, dbVars>>

\* a stored artifact becomes unreadable (disk damage, library upgrade)
Corrupt(path) ==
    /\ Exists(store, path)
    /\ store[path].ok
    /\ store' = [store EXCEPT ![path] = Corrupted]
    /\ UNCHANGED <<sales, pc, arg, df, todo, model, results, trained, loadFailed,
                   sawAbsent, dbVars>>

\* midnight: CURRENT_DATE of the database moves on
NextDay ==
    /\ today < MaxDay
    /\ today' = today + 1
    /\ UNCHANGED <<sales, store, mgrVars, sku_demand_forecast, reorder_suggestions,
                   stock, batch, resp, pipeVars>>

\* an approved stock movement of q units of key k
StockMove(k, q) ==
    /\ k \in Stocked
    /\ stock[k] + q \in 0..MaxStock
    /\ stock' = [stock EXCEPT ![k] = @ + q]
    /\ UNCHANGED <<sales, store, mgrVars, sku_demand_forecast, reorder_suggestions,
                   today, batch, resp, pipeVars>>

\* an approved outbound movement of q units of key k that the balance does
\* not cover: the balance is the sum of the inbound less the outbound
\* movements, and nothing keeps it above zero
Overdraw(k, q) ==
    /\ k \in Stocked
    /\ q > 0
    /\ stock[k] - q \in -MaxStock..-1
    /\ stock' = [stock EXCEPT ![k] = @ - q]
    /\ UNCHANGED <<sales, store, mgrVars, sku_demand_forecast, reorder_suggestions,
                   today, batch, resp, pipeVars>>

----------------------------------------------------------------------------
Init ==
    /\ sales = [k \in Keys |-> InitLen(k)]
    /\ store = [f \in {} |-> NoModel]
    /\ pc = [r \in Callers |-> "idle"]
    /\ arg = [r \in Callers |-> NoArg]
    /\ df = [r \in Callers |-> EmptyFrame]
    /\ todo = [r \in Callers |-> <<>>]
    /\ model = [r \in Callers |-> NoModel]
    /\ results = [r \in Callers |-> <<>>]
    /\ trained = [r \in Callers |-> {}]
    /\ loadFailed = [r \in Callers |-> {}]
    /\ sawAbsent = [r \in Callers |-> {}]
    /\ sku_demand_forecast = {}
    /\ reorder_suggestions = {}
    /\ stock = [k \in Keys \cup Stocked |-> 0]
    /\ today = FirstDay
    /\ batch = [seq |-> 0, kind |-> "none", req |-> NoRequest, data |-> EmptyFrame,
                results |-> <<>>, error |-> NoError, applied |-> 0]
    /\ resp = NoResponse
    /\ amounts = <<>>
    /\ anomalies = [ran |-> FALSE, w |-> NoWarehouse, series |-> <<>>,
                    forest |-> NoForest, df |-> <<>>, results |-> <<>>]
    /\ inventory_optimization = {}
    /\ sales_anomaly_event = {}
    /\ probe = NoProbe

Next ==
    \/ \E r \in Callers, w \in Warehouses, days \in Horizons,
          pid \in {NoProduct} \cup Products : Begin(r, w, days, pid)
    \/ \E r \in Callers : CheckExists(r)
    \/ \E r \in Callers : LoadOk(r)
    \/ \E r \in Callers : LoadFails(r)
    \/ \E r \in Callers : DumpModel(r)
    \/ \E r \in Callers : Return(r)
    \/ \E k \in Keys : AddSale(k)
    \/ \E path \in DOMAIN store : Corrupt(path)

Spec == Init /\ [][Next]_vars

\* the endpoints serving one request at a time, and their environment
NextApi ==
    \/ \E c \in {Company, NoCompany}, w \in ApiWarehouses \cup {NoWarehouse},
          days \in Horizons, pid \in {NoProduct} \cup Products,
          e \in {NoError} \cup DbErrors, at \in 0..MaxBatch :
            forecast(c, w, days, pid, e, at)
    \/ \E k \in Keys : AddSale(k)
    \/ \E path \in DOMAIN store : Corrupt(path)

SpecApi == Init /\ [][NextApi]_vars

\* the reorder endpoint over the forecasts of whole-warehouse forecast runs
NextReorder ==
    \/ \E w \in Warehouses :
            forecast(Company, w, MaxOf(Horizons), NoProduct, NoError, 0)
    \/ \E c \in {Company, NoCompany}, w \in Warehouses \cup {NoWarehouse},
          lt \in LeadTimes, days \in Horizons :
            compute_reorders(c, w, lt, days, NoError, 0)
    \/ NextDay
    \/ \E k \in Keys : StockMove(k, StockLot)
    \/ \E k \in Keys : StockMove(k, -StockLot)

SpecReorder == Init /\ [][NextReorder]_vars

\* the reorder endpoint over balances that outbound movements may overdraw
NextStock ==
    \/ \E w \in Warehouses :
            forecast(Company, w, MaxOf(Horizons), NoProduct, NoError, 0)
    \/ \E w \in Warehouses, lt \in LeadTimes :
            compute_reorders(Company, w, lt, MaxOf(Horizons), NoError, 0)
    \/ \E k \in Keys : StockMove(k, StockLot)
    \/ \E k \in Keys : StockMove(k, -StockLot)
    \/ \E k \in Keys : Overdraw(k, StockLot)

SpecStock == Init /\ [][NextStock]_vars

\* the anomaly pipeline over a growing list of sales
NextAnomaly ==
    \/ \E x \in AmountValues : AddSaleAmount(x)
    \/ \E w \in Warehouses, forest \in Forests : detect_sales_anomalies(w, forest)

SpecAnomaly == Init /\ [][NextAnomaly]_vars

\* the same pipeline over sales whose amounts lie close together
CloseAmounts == {4, 5}
CloseForests == [CloseAmounts -> IsoScores]

NextCloseAmounts ==
    \/ \E x \in CloseAmounts : AddSaleAmount(x)
    \/ \E w \in Warehouses, forest \in CloseForests : detect_sales_anomalies(w, forest)

SpecCloseAmounts == Init /\ [][NextCloseAmounts]_vars

\* the two endpoints that store what their pipeline returned, over days and
\* over a growing list of sales of one amount
SteadyAmounts == {4}
SteadyForests == [SteadyAmounts -> IsoScores]

NextStored ==
    \/ \E days \in Horizons :
            forecast(Company, SalesWarehouse, days, NoProduct, NoError, 0)
    \/ NextDay
    \/ \E x \in SteadyAmounts : AddSaleAmount(x)
    \/ \E forest \in SteadyForests, e \in {NoError, "deadlock detected"},
          at \in 0..1 :
            detect_anomaly_sales(Company, SalesWarehouse, forest, e, at)

SpecStored == Init /\ [][NextStored]_vars

\* calc applied to one row of merged, for a caller's z and lead time
CalcDemands == {0, 1500, 10000}
CalcDeviations == {0, 700, 3000}
CalcStocks == {-5, 0, 50}
ServiceLevels == {0, 1280, 1650, 2330}
CalcLeadTimes == {0, 1, 7, 14}

ApplyCalc(avg_d, std_d, stock_in_hand, z, lt) ==
    /\ probe' = [fn |-> "calc", avg_d |-> avg_d, std_d |-> std_d,
                 stock_in_hand |-> stock_in_hand, z |-> z, lt |-> lt,
                 out |-> calc(avg_d, std_d, stock_in_hand, z, lt)]
    /\ UNCHANGED <<sales, store, mgrVars, sku_demand_forecast, reorder_suggestions,
                   stock, today, batch, resp, amounts, anomalies, inventory_optimization,
                   sales_anomaly_event>>

(* inventory_optimization_model.py.  Quantities are in units of 0.0001.      *)

\* a classification that also calls a stock equal to the safety stock LOW
_status_low_inclusive(current, safety, optimal) ==
    IF current <= 1 THEN "STOCKOUT"
    ELSE IF current <= safety THEN "LOW"
    ELSE IF 10 * current <= 12 * optimal THEN "HEALTHY"
    ELSE "OVERSTOCK"

\* lines 19-26: _status(current, safety, optimal)
_status(current, safety, optimal) ==
    IF current <= 1 THEN "STOCKOUT"
    ELSE IF current < safety THEN "LOW"
    ELSE IF 10 * current <= 12 * optimal THEN "HEALTHY"
    ELSE "OVERSTOCK"

\* _status applied to a stock, a safety stock and an optimal level
StatusStocks == {-50000, 0, 1, 2, 10000, 49999, 50000, 59999, 60000, 60001,
                 700000, 3600001}
StatusSafeties == {0, 50000, 60000}
StatusOptimals == {0, 50000, 3000000}

ApplyStatus(current, safety, optimal) ==
    /\ probe' = [fn |-> "_status", current |-> current, safety |-> safety,
                 optimal |-> optimal, out |-> _status(current, safety, optimal)]
    /\ UNCHANGED <<sales, store, mgrVars, sku_demand_forecast, reorder_suggestions,
                   stock, today, batch, resp, amounts, anomalies, inventory_optimization,
                   sales_anomaly_event>>

\* a score that measures the distance against the stock, not the optimum
_health_score_of_stock(current, optimal) ==
    LET denom == MaxOf({current, 1000})
        dist == Abs(current - optimal)
    IN  IF dist >= denom THEN 0
        ELSE 10000 - (100 * ((100 * dist) \div denom)
                        + (100 * ((100 * dist) % denom)) \div denom)

\* lines 12-16: _health_score(current, optimal), thousandths in, hundredths
\* of a point out: max(0, 100 - 100 * |current - optimal| / max(optimal, 1))
_health_score(current, optimal) ==
    LET denom == MaxOf({optimal, 1000})
        dist == Abs(current - optimal)
    IN  IF dist >= denom THEN 0
        ELSE 10000 - (100 * ((100 * dist) \div denom)
                        + (100 * ((100 * dist) % denom)) \div denom)

DEFAULT_FORECAST_DAYS == 30

\* np.mean and np.std(ddof=0) of the quantities f over S, in thousandths
MeanOf(f, S) == (1000 * SumOver(f, S)) \div Cardinality(S)

StdOf(f, S) ==
    LET mean == MeanOf(f, S)
        sq == [x \in S |-> (1000 * f[x] - mean) * (1000 * f[x] - mean)]
    IN  ISqrt(SumOver(sq, S) \div Cardinality(S))

\* lines 29-58: _recent_sales_stats, per product of the warehouse with sales
_recent_sales_stats(w) ==
    LET frame == ReadSales(w, NoProduct)
        qty(p) == [d \in DOMAIN frame[p] |-> frame[p][d].y]
    IN  [p \in DOMAIN frame |->
            [avg_daily |-> MeanOf(qty(p), DOMAIN frame[p]),
             std_daily |-> StdOf(qty(p), DOMAIN frame[p])]]

\* lines 61-87: _forecast_stats, over the stored rows of the window as they are
_forecast_stats(w, horizon_days) ==
    LET rows == {t \in sku_demand_forecast :
                    /\ t.company_id = Company
                    /\ t.warehouse_id = w
                    /\ t.forecast_date >= today
                    /\ t.forecast_date < today + horizon_days}
        of(p) == {t \in rows : t.product_id = p}
        qty(p) == [t \in of(p) |-> t.predicted_quantity]
    IN  [p \in {t.product_id : t \in rows} |->
            [avg_daily_fc |-> MeanOf(qty(p), of(p)),
             std_daily_fc |-> StdOf(qty(p), of(p))]]

\* lines 140-165: the decision for one row of base
Decision(w, pid, cur, avg_d, std_d, z, lt, horizon) ==
    LET safety == (((z * std_d) \div 1000) * ISqrt(MaxOf({lt, 1}) * 1000000)) \div 1000
        optimal == avg_d * horizon + safety
    IN  [company_id |-> Company, warehouse_id |-> w, product_id |-> pid,
         current_stock |-> cur, avg_daily_demand |-> avg_d,
         safety_stock |-> safety, optimal_stock_level |-> optimal,
         stock_status |-> _status(10 * cur, 10 * safety, 10 * Max0(optimal)),
         inventory_health_score |-> _health_score(cur, Max0(optimal)),
         forecast_horizon_days |-> horizon, model_version |-> MODEL_VERSION]

\* a choice of the deviation that prefers the recent sales
std_choice_recent_first(p, recent, fc) ==
    IF p \in DOMAIN recent THEN recent[p].std_daily
    ELSE IF p \in DOMAIN fc THEN fc[p].std_daily_fc
    ELSE 0

\* lines 120-123 and 129: avg_daily_fc unless it is NaN, else avg_daily, else 0
avg_choice(p, recent, fc) ==
    IF p \in DOMAIN fc THEN fc[p].avg_daily_fc
    ELSE IF p \in DOMAIN recent THEN recent[p].avg_daily
    ELSE 0

\* lines 125-129: std_daily_fc unless it is NaN, else std_daily, else 0
std_choice(p, recent, fc) ==
    IF p \in DOMAIN fc THEN fc[p].std_daily_fc
    ELSE IF p \in DOMAIN recent THEN recent[p].std_daily
    ELSE 0

\* a frame that misses the stock balances
stock_df_none(w) == {}

\* line 107-111: the products of the warehouse with approved movements
stock_df(w) == {p \in Products : <<w, p>> \in Stocked}

\* lines 118-137: the frame base, per product of the demand signals or of
\* the stock
BaseFrame(w, recent, fc) ==
    [p \in DOMAIN recent \cup DOMAIN fc \cup stock_df(w) |->
        [avg_daily_demand |-> avg_choice(p, recent, fc),
         std_daily_demand |-> std_choice(p, recent, fc),
         current_stock |-> IF p \in stock_df(w) THEN 1000 * stock[<<w, p>>] ELSE 0]]

\* optimize_inventory(company_id, warehouse_id, z, lt, horizon_days)
optimize_inventory(w, service_level_z, lead_time_days, horizon_days) ==
    LET z == IF service_level_z # NoValue THEN service_level_z ELSE Z95
        lt == IF lead_time_days # NoValue THEN lead_time_days ELSE LEAD_TIME_DAYS
        recent == _recent_sales_stats(w)
        fc == _forecast_stats(w, horizon_days)
        base == BaseFrame(w, recent, fc)
        order == SortedSeq(DOMAIN base)
    IN  [i \in 1..Len(order) |->
            Decision(w, order[i], base[order[i]].current_stock,
                     base[order[i]].avg_daily_demand,
                     base[order[i]].std_daily_demand, z, lt, horizon_days)]

\* index_elements and set_ of the inventory upsert (app.py lines 683-698)
OptimizeIndex == {"company_id", "warehouse_id", "product_id", "model_version"}
OptimizeSet == {"current_stock", "avg_daily_demand", "safety_stock",
                "optimal_stock_level", "stock_status", "inventory_health_score",
                "forecast_horizon_days"}

\* POST /api/v1/inventory/optimize
inventory_optimize(c, w, service_level_z, lead_time_days, horizon_days, e, at) ==
    LET req == [c |-> c, w |-> w, days |-> horizon_days, lt |-> lead_time_days,
                z |-> service_level_z]
    IN
    /\ Raises(c, w, e, at)
    /\ IF Rejected(c, w)
       THEN /\ resp' = Response("error", 400, 0, "company_id & warehouse_id required")
            /\ batch' = Run("inventory", req, {}, <<>>, NoError, 0)
            /\ UNCHANGED inventory_optimization
       ELSE LET rows == optimize_inventory(w, service_level_z, lead_time_days,
                                           horizon_days)
                data == [forecasts |-> _forecast_stats(w, horizon_days),
                         recent |-> _recent_sales_stats(w),
                         base |-> BaseFrame(w, _recent_sales_stats(w),
                                            _forecast_stats(w, horizon_days)),
                         stock |-> stock]
            IN  IF NoData(rows)
                THEN /\ resp' = Response("ok", 200, 0,
                                         "No data (no stock or demand found)")
                     /\ batch' = Run("inventory", req, data, rows, NoError, 0)
                     /\ UNCHANGED inventory_optimization
                ELSE /\ at <= Len(rows)
                     /\ LET done == Persist(inventory_optimization, rows,
                                            OptimizeIndex, OptimizeSet, e, at)
                        IN  /\ inventory_optimization' = done.table
                            /\ resp' = done.resp
                     /\ batch' = Run("inventory", req, data, rows, e,
                                     IF e = NoError THEN Len(rows) ELSE at)
    /\ UNCHANGED <<sales, store, mgrVars, sku_demand_forecast, reorder_suggestions,
                   stock, today, amounts, anomalies, probe,
                   sales_anomaly_event>>

\* the reorder row and the inventory decision of one product
ApplyEngine(avg_d, std_d, stock_in_hand, z, lt, horizon) ==
    /\ probe' = [fn |-> "engine", avg_d |-> avg_d, std_d |-> std_d,
                 stock_in_hand |-> stock_in_hand, z |-> z, lt |-> lt,
                 horizon |-> horizon,
                 reorder |-> calc(avg_d, std_d, stock_in_hand, z, lt),
                 out |-> Decision(SalesWarehouse, 1, 1000 * stock_in_hand,
                                  avg_d, std_d, z, lt, horizon)]
    /\ UNCHANGED <<sales, store, mgrVars, sku_demand_forecast, reorder_suggestions,
                   stock, today, batch, resp, amounts, anomalies,
                   inventory_optimization, sales_anomaly_event>>

NextCalc ==
    \/ \E avg_d \in CalcDemands, std_d \in CalcDeviations,
          stock_in_hand \in CalcStocks, z \in {Z95, 2330},
          horizon \in {LEAD_TIME_DAYS, DEFAULT_FORECAST_DAYS} :
            ApplyEngine(avg_d, std_d, stock_in_hand, z, LEAD_TIME_DAYS, horizon)
    \/ \E avg_d \in CalcDemands, std_d \in CalcDeviations, stock_in_hand \in CalcStocks,
          z \in ServiceLevels, lt \in CalcLeadTimes :
            ApplyCalc(avg_d, std_d, stock_in_hand, z, lt)
    \/ \E current \in StatusStocks, safety \in StatusSafeties,
          optimal \in StatusOptimals :
            ApplyStatus(current, safety, optimal)

SpecCalc == Init /\ [][NextCalc]_vars

\* the inventory endpoint over stored forecasts and moving balances
NextOptimize ==
    \/ \E w \in Warehouses :
            forecast(Company, w, MaxOf(Horizons), NoProduct, NoError, 0)
    \/ \E w \in Warehouses, z \in {NoValue, -Z95} :
            inventory_optimize(Company, w, z, NoValue, DEFAULT_FORECAST_DAYS,
                               NoError, 0)
    \/ \E k \in Keys : StockMove(k, StockLot)
    \/ \E k \in Keys : Overdraw(k, StockLot)

SpecOptimize == Init /\ [][NextOptimize]_vars

\* the reorder and the inventory endpoints, before and after forecast runs
NextPipelines ==
    \/ \E days \in Horizons :
            forecast(Company, SalesWarehouse, days, NoProduct, NoError, 0)
    \/ NextDay
    \/ compute_reorders(Company, SalesWarehouse, NoValue, DEFAULT_FORECAST_DAYS,
                        NoError, 0)
    \/ \E w \in Warehouses :
            inventory_optimize(Company, w, NoValue, NoValue, DEFAULT_FORECAST_DAYS,
                               NoError, 0)

SpecPipelines == Init /\ [][NextPipelines]_vars

----------------------------------------------------------------------------
(* dynamic_pricing_model.py.  Prices and costs are in hundredths, quantities *)
(* and the elasticity in thousandths, the two factors in units of 0.0001,    *)
(* percentages in hundredths of a point.                                     *)

Clamp(x, lo, hi) == IF x < lo THEN lo ELSE IF x > hi THEN hi ELSE x

\* lines 9-12: _safe_pct_change(new, old), both in the same unit
_safe_pct_change(new, old) ==
    IF old = 0 THEN (IF new > 0 THEN 10000 ELSE 0)
    ELSE (10000 * (new - old)) \div old

FALLBACK_ELASTICITY == -1000

\* np.mean of n equal logarithms in binary64 is their sum, rounded at each
\* addition, over n.  For these prices and counts the rounded mean is one
\* unit in the last place away from the logarithm: log(10.0) added 6 or 7
\* times and divided gives 2.3025850929940463, not 2.302585092994046.
RoundedLogMeans == {<<1000, 6>>, <<1000, 7>>}

\* line 27: np.std(x) == 0, the root of the mean squared distance to np.mean
std_is_zero(sold) ==
    /\ \A i, j \in DOMAIN sold : sold[i].unit_price = sold[j].unit_price
    /\ <<sold[1].unit_price, Len(sold)>> \notin RoundedLogMeans

\* lines 15-31: calc_price_elasticity(df); slope is cov[0, 1] / cov[0, 0] of
\* the logarithms, whatever the regression gives when np.std(x) is not 0
calc_price_elasticity(grp, slope) ==
    LET sold == SelectSeq(grp, LAMBDA line : line.quantity > 0)
    IN  IF Len(grp) < 2 THEN FALLBACK_ELASTICITY
        ELSE IF sold = <<>> THEN FALLBACK_ELASTICITY
        ELSE IF std_is_zero(sold) THEN FALLBACK_ELASTICITY
        ELSE slope

\* line 85: the mean quantity of the last 7 lines, or of all when fewer
recent_qty_of(grp) ==
    LET used == IF Len(grp) >= 7 THEN Tail_n(grp, 7) ELSE grp
    IN  (1000 * SumOver([i \in DOMAIN used |-> used[i].quantity], DOMAIN used))
            \div Len(used)

\* line 103: max(avg_cost * 1.20, avg_cost * 1.05), in units of 0.0000001
floor_price(avg_cost) == MaxOf({120000 * avg_cost, 105000 * avg_cost})

\* a factor that follows the elasticity without a bound
elasticity_factor_unbounded(elasticity) == 10000 - elasticity

\* line 105: 1.0 + max(-0.3, min(0.3, -0.1 * elasticity))
elasticity_factor(elasticity) == 10000 + Clamp(-elasticity, -3000, 3000)

\* line 107: 1.0 + max(-0.1, min(0.1, (forecast - recent) / recent * 0.05))
demand_factor(avg_forecast, recent_qty) ==
    10000 + Clamp((500 * (avg_forecast - recent_qty)) \div recent_qty, -1000, 1000)

\* current_price * elasticity_factor * demand_factor, in units of 0.0000001
adjusted_price(current_price, ef, dfac) == ((current_price * ef) \div 1000) * dfac

\* round(x, 2) of a price in units of 0.0000001, in hundredths
RoundPrice(x) == (x + 50000) \div 100000

\* lines 117-128: rationale_bits, or the default
rationale_of(avg_cost, elasticity, avg_forecast, recent_qty) ==
    LET bits ==
            (IF avg_cost > 0 THEN <<"Cost floor">> ELSE <<>>)
            \o (IF elasticity < -800 THEN <<"High elasticity">>
                ELSE IF elasticity > -200 THEN <<"Low elasticity">>
                ELSE <<>>)
            \o (IF 10 * avg_forecast > 11 * recent_qty THEN <<"Rising demand">>
                ELSE IF 10 * avg_forecast < 9 * recent_qty THEN <<"Weak demand">>
                ELSE <<>>)
    IN  IF bits = <<>> THEN <<"Balanced factors">> ELSE bits

\* lines 81-141: the recommendation for the lines grp of product pid, with
\* the rows cost_df and fc_df of the product (empty when there is none)
PricingRow(w, pid, grp, cost_df, fc_df, slope) ==
    LET current_price == grp[Len(grp)].unit_price
        recent_qty == recent_qty_of(grp)
        avg_cost == IF cost_df # <<>> THEN cost_df[1] ELSE 0
        avg_forecast == IF fc_df # <<>> THEN fc_df[1] ELSE recent_qty
        elasticity == calc_price_elasticity(grp, slope)
        floor == floor_price(avg_cost)
        ef == elasticity_factor(elasticity)
        dfac == demand_factor(avg_forecast, recent_qty)
        adjusted == adjusted_price(current_price, ef, dfac)
        suggested == MaxOf({floor, adjusted})
        price_change_pct == _safe_pct_change(suggested \div 1000, 100 * current_price)
    IN  [company_id |-> Company, warehouse_id |-> w, product_id |-> pid,
         current_price |-> current_price,
         suggested_price |-> RoundPrice(suggested),
         price_change_pct |-> price_change_pct,
         expected_demand_change |-> ((-elasticity) * price_change_pct) \div 1000,
         confidence_level |-> MaxOf({30, Min({95, 30 + Len(grp) * 2})}),
         rationale |-> rationale_of(avg_cost, elasticity, avg_forecast, recent_qty),
         model_version |-> MODEL_VERSION]

\* the sale lines of a product, its average cost, its average forecast and
\* the slope of its regression
PricedLines == {<<[unit_price |-> 1000, quantity |-> 4]>>,
                <<[unit_price |-> 1000, quantity |-> 4],
                  [unit_price |-> 1000, quantity |-> 10]>>,
                <<[unit_price |-> 1000, quantity |-> 4],
                  [unit_price |-> 1200, quantity |-> 10]>>,
                <<[unit_price |-> 1200, quantity |-> 10],
                  [unit_price |-> 1000, quantity |-> 4]>>,
                <<[unit_price |-> 1000, quantity |-> 1],
                  [unit_price |-> 1000, quantity |-> 2],
                  [unit_price |-> 1000, quantity |-> 3],
                  [unit_price |-> 1000, quantity |-> 4],
                  [unit_price |-> 1000, quantity |-> 5],
                  [unit_price |-> 1000, quantity |-> 6]>>}
CostRows == {<<>>, <<0>>, <<500>>, <<1500>>}
ForecastAverages == {<<>>, <<-2500>>, <<4400>>, <<7000>>, <<30000>>}
Slopes == {-5000, -900, -800, -500, -200, -100, 4000}

\* recommend_prices computes the row of one product
ApplyPricing(grp, cost_df, fc_df, slope) ==
    /\ probe' = [fn |-> "pricing", grp |-> grp, cost_df |-> cost_df,
                 fc_df |-> fc_df, slope |-> slope,
                 elasticity |-> calc_price_elasticity(grp, slope),
                 out |-> PricingRow(SalesWarehouse, 1, grp, cost_df, fc_df, slope)]
    /\ UNCHANGED <<sales, store, mgrVars, sku_demand_forecast, reorder_suggestions,
                   stock, today, batch, resp, amounts, anomalies,
                   inventory_optimization, sales_anomaly_event>>

NextPricing ==
    \E grp \in PricedLines, cost_df \in CostRows, fc_df \in ForecastAverages,
       slope \in Slopes :
        ApplyPricing(grp, cost_df, fc_df, slope)

SpecPricing == Init /\ [][NextPricing]_vars

(* The formula sites of the engine, each applied to ordinary and to          *)
(* degenerate inputs.                                                        *)

\* sale lines of one product, some with equal prices or unsold lines
ElasticityLines ==
    PricedLines \cup
        {<<[unit_price |-> 1000, quantity |-> 0],
           [unit_price |-> 1200, quantity |-> 0]>>,
         <<[unit_price |-> 1000, quantity |-> 4],
           [unit_price |-> 1200, quantity |-> 0]>>,
         <<[unit_price |-> 1000, quantity |-> 4],
           [unit_price |-> 1000, quantity |-> 10],
           [unit_price |-> 1000, quantity |-> 7]>>}

\* series of sale amounts, some constant
AmountSeries == {<<2>>, <<12, 12>>, <<2, 12>>, <<2, 2, 2>>, <<2, 2, 12>>,
                 <<12, 12, 12, 12>>, <<2, 12, 12, 12>>}

PctValues == {-500, 0, 500, 1000, 1200}
PctBases == {0, 1000, 1200}
HealthStocks == {0, 400, 1000, 1500, 8000}
HealthOptimals == {-2000, 0, 400, 999, 1000, 8000}

ApplyElasticity(grp, slope) ==
    /\ probe' = [fn |-> "calc_price_elasticity", grp |-> grp, slope |-> slope,
                 out |-> calc_price_elasticity(grp, slope)]
    /\ UNCHANGED <<sales, store, mgrVars, sku_demand_forecast, reorder_suggestions,
                   stock, today, batch, resp, amounts, anomalies,
                   inventory_optimization, sales_anomaly_event>>

ApplyPctChange(new, old) ==
    /\ probe' = [fn |-> "_safe_pct_change", new |-> new, old |-> old,
                 out |-> _safe_pct_change(new, old)]
    /\ UNCHANGED <<sales, store, mgrVars, sku_demand_forecast, reorder_suggestions,
                   stock, today, batch, resp, amounts, anomalies,
                   inventory_optimization, sales_anomaly_event>>

ApplyHealthScore(current, optimal) ==
    /\ probe' = [fn |-> "_health_score", current |-> current, optimal |-> optimal,
                 out |-> _health_score(current, optimal)]
    /\ UNCHANGED <<sales, store, mgrVars, sku_demand_forecast, reorder_suggestions,
                   stock, today, batch, resp, amounts, anomalies,
                   inventory_optimization, sales_anomaly_event>>

\* anomaly_model.py line 85 for the sale i of the series a
ApplyZScore(a, i) ==
    /\ probe' = [fn |-> "z_score", a |-> a, i |-> i,
                 out |-> z_score(Deviation(a[i], Len(a), TotalAmount(a)),
                                 Len(a), SumSqDev(a))]
    /\ UNCHANGED <<sales, store, mgrVars, sku_demand_forecast, reorder_suggestions,
                   stock, today, batch, resp, amounts, anomalies,
                   inventory_optimization, sales_anomaly_event>>

NextFormula ==
    \/ \E grp \in ElasticityLines, slope \in Slopes : ApplyElasticity(grp, slope)
    \/ \E new \in PctValues, old \in PctBases : ApplyPctChange(new, old)
    \/ \E current \in HealthStocks, optimal \in HealthOptimals :
            ApplyHealthScore(current, optimal)
    \/ \E a \in AmountSeries : \E i \in DOMAIN a : ApplyZScore(a, i)

SpecFormula == Init /\ [][NextFormula]_vars

----------------------------------------------------------------------------
(* customer_segmentation_model.py.  A column is the sequence of the values   *)
(* of the customers of agg; clv_score is in hundredths.                      *)

\* Series.rank(method="first"): ties are ranked in the order of the rows
rank_first(col, i) ==
    1 + Cardinality({j \in DOMAIN col : col[j] < col[i] \/ (col[j] = col[i] /\ j < i)})

\* a ranking from the largest value down
rank_from_largest(col, i) ==
    1 + Cardinality({j \in DOMAIN col : col[j] > col[i] \/ (col[j] = col[i] /\ j < i)})

\* line 99: monetary_value.rank(method="first")
monetary_rank(col, i) == rank_first(col, i)

\* the column in ascending order
RECURSIVE Ascending(_)
Ascending(col) ==
    IF col = <<>> THEN <<>>
    ELSE LET rest == Ascending(Tail(col))
             below == SelectSeq(rest, LAMBDA x : x <= Head(col))
             above == SelectSeq(rest, LAMBDA x : x > Head(col))
         IN  below \o <<Head(col)>> \o above

\* 5 x the j-th of the quantiles 0, 0.2, ..., 1 of an ascending column,
\* interpolated linearly between the two nearest values
QuantileEdge(asc, j) ==
    LET h == (Len(asc) - 1) * j
        lo == (h \div 5) + 1
    IN  IF h % 5 = 0 THEN 5 * asc[lo]
        ELSE 5 * asc[lo] + (h % 5) * (asc[lo + 1] - asc[lo])

\* pd.qcut(col, 5, labels): the label of the bin of every value, or the
\* ValueError of bin edges that are not unique
qcut(col, labels) ==
    LET asc == Ascending(col)
        edge == <<QuantileEdge(asc, 1), QuantileEdge(asc, 2), QuantileEdge(asc, 3),
                  QuantileEdge(asc, 4), QuantileEdge(asc, 5)>>
        bin(x) == Min({j \in 1..5 : 5 * x <= edge[j]})
    IN  IF QuantileEdge(asc, 0) = edge[1] \/ \E j \in 2..5 : edge[j] = edge[j - 1]
        THEN [ok |-> FALSE, labels |-> <<>>]
        ELSE [ok |-> TRUE, labels |-> [i \in DOMAIN col |-> labels[bin(col[i])]]]

\* np.where(col <= col.median(), low, high), the median doubled
median_split(col, low, high) ==
    LET asc == Ascending(col)
        n == Len(col)
        median2 == IF n % 2 = 1 THEN 2 * asc[(n + 1) \div 2]
                   ELSE asc[n \div 2] + asc[(n \div 2) + 1]
    IN  [i \in DOMAIN col |-> IF 2 * col[i] <= median2 THEN low ELSE high]

\* lines 85-90
r_score(recency_days) ==
    LET cut == qcut(recency_days, <<5, 4, 3, 2, 1>>)
    IN  IF cut.ok THEN cut.labels ELSE median_split(recency_days, 5, 3)

\* lines 92-96
f_score(frequency) ==
    LET cut == qcut([i \in DOMAIN frequency |-> rank_first(frequency, i)],
                    <<1, 2, 3, 4, 5>>)
    IN  IF cut.ok THEN cut.labels ELSE median_split(frequency, 2, 4)

\* lines 98-102
m_score(monetary_value) ==
    LET cut == qcut([i \in DOMAIN monetary_value |->
                        monetary_rank(monetary_value, i)], <<1, 2, 3, 4, 5>>)
    IN  IF cut.ok THEN cut.labels ELSE median_split(monetary_value, 2, 4)

\* lines 105-106: ((r + f + m) / 15.0) * 100.0, clipped to [0, 100], rounded
\* to 2 decimals
clv_score(r, f, m) == Clamp((20000 * (r + f + m) + 15) \div 30, 0, 10000)

\* a labeling whose buckets start above their threshold
_segment_above(score) ==
    IF score > 8000 THEN "Champions"
    ELSE IF score > 6000 THEN "Loyal"
    ELSE IF score > 4000 THEN "At Risk"
    ELSE IF score > 2000 THEN "Churn Risk"
    ELSE "New"

\* lines 109-120: _segment(row)
_segment(score) ==
    IF score >= 8000 THEN "Champions"
    ELSE IF score >= 6000 THEN "Loyal"
    ELSE IF score >= 4000 THEN "At Risk"
    ELSE IF score >= 2000 THEN "Churn Risk"
    ELSE "New"

\* lines 82-122: the frame agg with its scores
ScoredFrame(recency_days, frequency, monetary_value) ==
    LET r == r_score(recency_days)
        f == f_score(frequency)
        m == m_score(monetary_value)
    IN  [i \in DOMAIN monetary_value |->
            [customer_id |-> i, recency_days |-> recency_days[i],
             frequency |-> frequency[i], monetary_value |-> monetary_value[i],
             r_score |-> r[i], f_score |-> f[i], m_score |-> m[i],
             clv_score |-> clv_score(r[i], f[i], m[i]),
             segment |-> _segment(clv_score(r[i], f[i], m[i]))]]

\* lines 125-136: the result rows
SegmentRows(frame) ==
    [i \in DOMAIN frame |->
        [company_id |-> Company, customer_id |-> frame[i].customer_id,
         recency_days |-> frame[i].recency_days, frequency |-> frame[i].frequency,
         monetary_value |-> frame[i].monetary_value,
         clv_score |-> frame[i].clv_score, segment |-> frame[i].segment,
         model_version |-> MODEL_VERSION]]

\* the columns of n customers: values that grow, fall, are all equal, come
\* in pairs, or are distinct in no order
ColumnOf(shape, n) ==
    [i \in 1..n |->
        CASE shape = "rising" -> 10 * i
          [] shape = "falling" -> 10 * (n + 1 - i)
          [] shape = "equal" -> 7
          [] shape = "paired" -> 10 * ((i + 1) \div 2)
          [] OTHER -> 10 * ((3 * i) % 7)]
Shapes == {"rising", "falling", "equal", "paired", "mixed"}
CustomerCounts == {1, 2, 3, 5}

\* calculate_customer_segments over the aggregates of n customers
calculate_customer_segments(n, rs, fs, ms) ==
    /\ LET frame == ScoredFrame(ColumnOf(rs, n), ColumnOf(fs, n), ColumnOf(ms, n))
       IN  probe' = [fn |-> "segments", agg |-> frame, out |-> SegmentRows(frame)]
    /\ UNCHANGED <<sales, store, mgrVars, sku_demand_forecast, reorder_suggestions,
                   stock, today, batch, resp, amounts, anomalies,
                   inventory_optimization, sales_anomaly_event>>

NextSegments ==
    \E n \in CustomerCounts, rs \in Shapes, fs \in {"rising", "paired"},
       ms \in Shapes :
        calculate_customer_segments(n, rs, fs, ms)

SpecSegments == Init /\ [][NextSegments]_vars

----------------------------------------------------------------------------
(* Notions used by the properties *)

AllKeys == Warehouses \X Products
PathOf(k) == _model_path(Company, k[1], k[2])
Loadable(files, path) == Exists(files, path) /\ files[path].ok
Range(s) == {s[i] : i \in DOMAIN s}
RowsOf(res, p) == SelectSeq(res, LAMBDA row : row.product_id = p)
Active(r) == pc[r] \in {"exists", "load", "dump"}
\* caller r took a step
Stepped(r) == pc'[r] # pc[r]
\* the products of r's frame with enough points
Enough(r) == {p \in DOMAIN df[r] : Len(df[r][p]) >= MIN_TS_POINTS}
Short(r) == {p \in DOMAIN df[r] : Len(df[r][p]) < MIN_TS_POINTS}
LastDs(r, p) == df[r][p][Len(df[r][p])].ds

----------------------------------------------------------------------------
(* C1: a stored artifact that fails to load is treated as no artifact: the  *)
(* call fits a new model on the request's series, overwrites the file with  *)
(* it (the file is loadable right after the dump), appends the product's    *)
(* forecast points, and never ends in an error.                             *)
C1_CorruptArtifactRetrained ==
    [][\A r \in Callers :
        /\ pc'[r] # "raised"
        /\ (pc[r] = "load" /\ Stepped(r) /\ ~Loadable(store, CurPath(r)))
              => /\ pc'[r] = "dump"
                 /\ model'[r] = Fit(df[r][Cur(r)])
                 /\ Cur(r) \in loadFailed'[r]
        /\ (pc[r] = "dump" /\ Stepped(r) /\ Cur(r) \in loadFailed[r])
              => /\ Loadable(store', CurPath(r))
                 /\ store'[CurPath(r)] = Fit(df[r][Cur(r)])
                 /\ RowsOf(results'[r], Cur(r)) =
                       ForecastRows(arg[r].w, Cur(r), Fit(df[r][Cur(r)]), arg[r].days)
                 /\ Len(RowsOf(results'[r], Cur(r))) = arg[r].days
      ]_vars

\* a call has returned points for a product whose artifact failed to load,
\* and the artifact it left is loadable
C1_Witness ==
    \E r \in Callers : \E p \in loadFailed[r] :
        /\ pc[r] = "returned"
        /\ p \in trained[r]
        /\ Len(RowsOf(results[r], p)) = arg[r].days
        /\ Loadable(store, _model_path(Company, arg[r].w, p))

(* C2: every forecast product gets exactly horizon_days points on           *)
(* consecutive days, the first the day after the last point of the series   *)
(* of that request (also when a cached model is reused).                    *)
C2_StartsAfterRequestSeries ==
    \A r \in Callers :
        pc[r] = "returned" =>
            \A p \in Enough(r) :
                LET rows == RowsOf(results[r], p)
                IN  /\ Len(rows) = arg[r].days
                    /\ \A i \in 1..Len(rows) :
                          rows[i].forecast_date = LastDs(r, p) + i

(* C3: in a batch, a product with fewer than MIN_TS_POINTS points gets no   *)
(* points, raises nothing and its artifact is neither loaded nor written by *)
(* the call, while every other product of the batch gets its full forecast. *)
C3_ShortSeriesSkipped ==
    \A r \in Callers :
        /\ pc[r] # "raised"
        /\ \A p \in Short(r) :
              /\ RowsOf(results[r], p) = <<>>
              /\ p \notin Range(todo[r])
              /\ p \notin trained[r]
              /\ p \notin loadFailed[r]
        /\ pc[r] = "returned" =>
              \A p \in Enough(r) : Len(RowsOf(results[r], p)) = arg[r].days

\* a whole-warehouse batch returned with a short product and a forecast one
C3_Witness ==
    \E r \in Callers :
        /\ pc[r] = "returned"
        /\ arg[r].pid = NoProduct
        /\ Short(r) # {}
        /\ \E p \in Enough(r) : Len(RowsOf(results[r], p)) = arg[r].days
        /\ \A p \in Short(r) : ~Exists(store, _model_path(Company, arg[r].w, p))

(* C4: the store holds at most one artifact per key and no two keys share   *)
(* an artifact: paths of distinct keys differ, every stored file is the     *)
(* file of exactly one key, and a readable file holds a model of that key.  *)
C4_OneArtifactPerKey ==
    /\ \A k1, k2 \in AllKeys : PathOf(k1) = PathOf(k2) => k1 = k2
    /\ \A f \in DOMAIN store : Cardinality({k \in Keys : PathOf(k) = f}) = 1
    /\ \A k \in Keys :
          Loadable(store, PathOf(k)) =>
              \E n \in 1..MaxLen : store[PathOf(k)].history = Series(k, n)
    /\ Cardinality(DOMAIN store) <= Cardinality(Keys)

\* two callers are at work at once and two keys have their own artifact
C4_Witness ==
    /\ \A r \in Callers : Active(r)
    /\ Loadable(store, PathOf(<<1, 11>>))
    /\ Loadable(store, PathOf(<<11, 1>>))
    /\ store[PathOf(<<1, 11>>)] # store[PathOf(<<11, 1>>)]

(* C5: two calls that both found no artifact for a key both fit and both    *)
(* save; each dump replaces whatever the file holds (last writer wins), and *)
(* both calls go on to their return with the product's points; neither     *)
(* ends in an error.                                                        *)
C5_LastWriterWins ==
    [][\A r \in Callers :
        /\ pc'[r] # "raised"
        /\ (pc[r] = "dump" /\ Stepped(r))
              => /\ store'[CurPath(r)] = model[r]
                 /\ Cur(r) \in trained'[r]
                 /\ RowsOf(results'[r], Cur(r)) =
                       ForecastRows(arg[r].w, Cur(r), model[r], arg[r].days)
                 /\ \A f \in DOMAIN store : f # CurPath(r) => store'[f] = store[f]
        /\ (pc[r] = "exists" /\ Stepped(r) /\ ~Exists(store, CurPath(r)))
              => pc'[r] = "dump"
        /\ (pc[r] = "dump" /\ Stepped(r)) => pc'[r] \in {"exists", "returned"}
      ]_vars

\* both calls fitted the same key without a failed load (so both saw it
\* absent), fitted different models, both returned its points, and the file
\* holds the model of one of them
C5_Witness ==
    \E p \in Products :
        /\ \A r \in Callers :
              /\ pc[r] = "returned"
              /\ p \in trained[r]
              /\ loadFailed[r] = {}
              /\ Len(RowsOf(results[r], p)) = arg[r].days
        /\ arg[1].w = arg[2].w
        /\ df[1][p] # df[2][p]
        /\ \E r \in Callers : store[_model_path(Company, arg[r].w, p)] = Fit(df[r][p])

(* C6 (as stated): artifacts are never deleted; a call that loads the       *)
(* artifact successfully reuses it without fitting or writing, whatever its *)
(* series; an existing artifact is overwritten only by a call whose load    *)
(* of it failed.                                                            *)
C6_OverwriteOnlyAfterFailedLoad ==
    [][/\ DOMAIN store \subseteq DOMAIN store'
       /\ \A r \in Callers :
            /\ (pc[r] = "load" /\ Stepped(r) /\ Loadable(store, CurPath(r)))
                  => /\ store' = store
                     /\ trained'[r] = trained[r]
                     /\ pc'[r] # "dump"
                     /\ RowsOf(results'[r], Cur(r)) =
                           ForecastRows(arg[r].w, Cur(r), store[CurPath(r)], arg[r].days)
            /\ (pc[r] = "dump" /\ Stepped(r) /\ Exists(store, CurPath(r)))
                  => Cur(r) \in loadFailed[r]
      ]_vars

(* C6 (amended): as above, but an existing artifact is overwritten only by  *)
(* a call whose load of it failed or by a call that found no artifact when  *)
(* it looked, before a concurrent call saved one.                           *)
C6_ReuseUntilLoadFails ==
    [][/\ DOMAIN store \subseteq DOMAIN store'
       /\ \A r \in Callers :
            /\ (pc[r] = "load" /\ Stepped(r) /\ Loadable(store, CurPath(r)))
                  => /\ store' = store
                     /\ trained'[r] = trained[r]
                     /\ pc'[r] # "dump"
                     /\ RowsOf(results'[r], Cur(r)) =
                           ForecastRows(arg[r].w, Cur(r), store[CurPath(r)], arg[r].days)
            /\ (pc[r] = "dump" /\ Stepped(r) /\ Exists(store, CurPath(r)))
                  => \/ Cur(r) \in loadFailed[r]
                     \/ Cur(r) \in sawAbsent[r]
            /\ (Stepped(r) /\ store' # store) => pc[r] = "dump"
      ]_vars

\* a call carrying a longer series has reused, without fitting, an artifact
\* fitted on a shorter one
C6_Witness ==
    \E r \in Callers : \E p \in Enough(r) :
        /\ pc[r] = "returned"
        /\ p \notin trained[r]
        /\ Loadable(store, _model_path(Company, arg[r].w, p))
        /\ Len(store[_model_path(Company, arg[r].w, p)].history) < Len(df[r][p])
        /\ RowsOf(results[r], p) # <<>>

(* C7: a forecast run that repeats the request of the run before it, on the *)
(* same sales data, both persisted, leaves the forecast table as the first  *)
(* run left it (no row added, no value changed), one row per natural key.   *)
C7_SecondRunAddsNothing ==
    [][(/\ batch'.seq # batch.seq
        /\ batch.kind = "forecast" /\ batch'.kind = "forecast"
        /\ resp.status = "success" /\ resp'.status = "success"
        /\ batch'.req = batch.req
        /\ batch'.data = batch.data)
          => /\ sku_demand_forecast' = sku_demand_forecast
             /\ \A t1, t2 \in sku_demand_forecast' :
                   SameKey(t1, t2, ForecastIndex) => t1 = t2
      ]_vars

(* C8: two calls of train_and_predict with the same arguments that read the *)
(* same sales data return the same result list, whatever calls were served  *)
(* before or between them.                                                  *)
C8_SameInputSameResult ==
    \A r1, r2 \in Callers :
        (/\ pc[r1] = "returned" /\ pc[r2] = "returned"
         /\ arg[r1] = arg[r2]
         /\ df[r1] = df[r2])
            => results[r1] = results[r2]

(* C9: after a persisted reorder run, every record of the run is stored as  *)
(* the run computed it, in every field (avg_daily_demand, std_daily_demand  *)
(* and stock_in_hand included).                                             *)
C9_StoredRowEqualsLatestRun ==
    (batch.kind = "reorders" /\ resp.status = "success")
        => \A i \in 1..Len(batch.results) :
              batch.results[i] \in reorder_suggestions

(* C10: a request whose persistence raises leaves every table as it was     *)
(* before the request, whatever the transaction had written, and answers    *)
(* with status "error", code 500 and the message of the exception.          *)
C10_FailedPersistRolledBack ==
    [][(batch'.seq # batch.seq /\ batch'.error # NoError)
          => /\ sku_demand_forecast' = sku_demand_forecast
             /\ reorder_suggestions' = reorder_suggestions
             /\ resp'.status = "error"
             /\ resp'.code = 500
             /\ resp'.message = batch'.error
             /\ resp'.message \in DbErrors
      ]_vars

\* a forecast batch failed after part of it was written to a table that had
\* records; the batch would have added a row, and the table has none of it
C10_Witness ==
    /\ batch.kind = "forecast"
    /\ batch.error \in DbErrors
    /\ resp.code = 500
    /\ batch.applied >= 1
    /\ batch.applied < Len(batch.results)
    /\ sku_demand_forecast # {}
    /\ batch.results[1] \notin sku_demand_forecast
    /\ \A t \in sku_demand_forecast : ~SameKey(t, batch.results[1], ForecastIndex)

(* C11: a forecast request without company_id or without warehouse_id is    *)
(* answered with status "error" and code 400 and runs nothing: no artifact  *)
(* is written and no table changes.                                         *)
C11_MissingScopeRejected ==
    [][(/\ batch'.seq # batch.seq
        /\ batch'.kind = "forecast"
        /\ (batch'.req.c = NoCompany \/ batch'.req.w = NoWarehouse))
          => /\ resp'.status = "error"
             /\ resp'.code = 400
             /\ resp'.message # ""
             /\ batch'.results = <<>>
             /\ store' = store
             /\ sku_demand_forecast' = sku_demand_forecast
             /\ reorder_suggestions' = reorder_suggestions
      ]_vars

\* a request without company_id, for a warehouse whose product could be
\* fitted (it has enough history and no artifact yet), was rejected
C11_Witness ==
    /\ batch.kind = "forecast"
    /\ batch.req.c = NoCompany
    /\ batch.req.w \in Warehouses
    /\ resp.code = 400
    /\ Trainable(ReadSales(batch.req.w, batch.req.pid)) # <<>>
    /\ \A p \in Products : ~Exists(store, _model_path(Company, batch.req.w, p))

(* C12: a forecast run that finds no product with enough history (no rows   *)
(* at all included) returns the empty list and is answered with status      *)
(* "ok", code 200 and count 0, which no failure carries; no table and no    *)
(* artifact changes.  A run that finds such a product returns rows.         *)
C12_NoDataIsEmptySuccess ==
    [][(/\ batch'.seq # batch.seq
        /\ batch'.kind = "forecast"
        /\ ~(batch'.req.c = NoCompany \/ batch'.req.w = NoWarehouse))
          => IF Trainable(batch'.data) = <<>>
             THEN /\ batch'.results = <<>>
                  /\ resp' = Response("ok", 200, 0,
                               "No trainable SKUs found (insufficient history).")
                  /\ store' = store
                  /\ sku_demand_forecast' = sku_demand_forecast
                  /\ reorder_suggestions' = reorder_suggestions
             ELSE /\ batch'.results # <<>>
                  /\ resp'.status \in {"success", "error"}
                  /\ resp'.status = "error" => resp'.code = 500
      ]_vars

\* a run found rows, none of them of a product with enough history, after
\* other runs had stored forecasts
C12_Witness ==
    /\ batch.kind = "forecast"
    /\ batch.req.w \in Warehouses
    /\ batch.req.c = Company
    /\ DOMAIN batch.data # {}
    /\ batch.results = <<>>
    /\ resp.status = "ok"
    /\ resp.count = 0
    /\ sku_demand_forecast # {}

\* n * sum of squares - (sum)^2 = n^2 * variance of the series a
ScaledVariance(a) ==
    LET total == SumOver(a, DOMAIN a)
    IN  Len(a) * SumOver([j \in DOMAIN a |-> a[j] * a[j]], DOMAIN a) - total * total

\* n * a[i] - sum = n * (a[i] - mean)
ScaledDistance(a, i) == Abs(Len(a) * a[i] - SumOver(a, DOMAIN a))

(* C13: the statistical detector flags a sale exactly when its distance to  *)
(* the mean is strictly more than 3 population standard deviations (both    *)
(* sides squared and scaled by n^2); when the deviation is 0 every z-score  *)
(* is 0 and nothing is flagged; a flagged sale's reason names the detector. *)
C13_ZFlagAboveThreeSigma ==
    anomalies.ran =>
        \A i \in DOMAIN anomalies.df :
            LET a == anomalies.series
                row == anomalies.df[i]
            IN  /\ row.is_z_anomaly <=>
                      ScaledDistance(a, i) * ScaledDistance(a, i)
                          > 9 * ScaledVariance(a)
                /\ ScaledVariance(a) = 0 => (row.z_score = 0 /\ ~row.is_z_anomaly)
                /\ \A r \in Range(anomalies.results) :
                      r.sale_id = i =>
                          (row.is_z_anomaly <=> "Z-score anomaly" \in Range(r.reason))

(* C14: for a series of 10 sales or fewer the outlier detector gives every  *)
(* sale the score 0.5 and flags none, whatever a forest would say; from 11  *)
(* sales on the scores and flags are those of the fitted forest.            *)
C14_ForestOnlyAboveTenPoints ==
    anomalies.ran =>
        \A i \in DOMAIN anomalies.df :
            LET row == anomalies.df[i]
            IN  IF Len(anomalies.series) <= 10
                THEN row.iso_score = 50000 /\ ~row.is_iso_anomaly
                ELSE /\ row.iso_score = anomalies.forest[row.total_amount]
                     /\ row.is_iso_anomaly <=> row.iso_score < 0

\* a run over exactly 10 sales, some of which a forest would have flagged
C14_Witness ==
    /\ anomalies.ran
    /\ Len(anomalies.series) = 10
    /\ \E i \in DOMAIN anomalies.series : anomalies.forest[anomalies.series[i]] < 0
    /\ \A i \in DOMAIN anomalies.df : anomalies.df[i].iso_score = 50000
    /\ anomalies.results = <<>>

(* C15: the sales emitted are exactly those a detector flagged, each once;  *)
(* an emitted record's score is |z| + (1 - outlier score) to the four       *)
(* decimals it keeps, its level ALERT when that sum is above 4 and WARN     *)
(* otherwise, never INFO.                                                   *)
C15_EmittedIffFlagged ==
    anomalies.ran =>
        /\ {r.sale_id : r \in Range(anomalies.results)} =
              {i \in DOMAIN anomalies.df :
                  anomalies.df[i].is_z_anomaly \/ anomalies.df[i].is_iso_anomaly}
        /\ Len(anomalies.results) =
              Cardinality({r.sale_id : r \in Range(anomalies.results)})
        /\ \A r \in Range(anomalies.results) :
              LET row == anomalies.df[r.sale_id]
                  sum == 1000 * Abs(row.z_score) + (100000 - row.iso_score)
              IN  /\ Abs(10 * r.score - sum) <= 5
                  /\ r.level = (IF sum > 400000 THEN "ALERT" ELSE "WARN")
                  /\ r.level # "INFO"

\* a run emitted a sale both detectors flagged, with level ALERT, and left
\* out the sales no detector flagged
C15_Witness ==
    /\ anomalies.ran
    /\ \E r \in Range(anomalies.results) :
          /\ r.level = "ALERT"
          /\ anomalies.df[r.sale_id].is_z_anomaly
          /\ anomalies.df[r.sale_id].is_iso_anomaly
    /\ Len(anomalies.results) < Len(anomalies.series)

(* C16: for a daily demand, a deviation, a z and a lead time that are not   *)
(* negative, calc gives a safety stock >= 0 and a reorder point >= the      *)
(* safety stock, and neither gets smaller when z or the lead time grows.    *)
C16_SafetyAndReorderPointMonotone ==
    probe.fn = "calc" =>
        /\ probe.out.safety_stock >= 0
        /\ probe.out.reorder_point >= probe.out.safety_stock
        /\ \A z \in ServiceLevels :
              z >= probe.z =>
                  LET more == calc(probe.avg_d, probe.std_d, probe.stock_in_hand,
                                   z, probe.lt)
                  IN  /\ more.safety_stock >= probe.out.safety_stock
                      /\ more.reorder_point >= probe.out.reorder_point
        /\ \A lt \in CalcLeadTimes :
              lt >= probe.lt =>
                  LET more == calc(probe.avg_d, probe.std_d, probe.stock_in_hand,
                                   probe.z, lt)
                  IN  /\ more.safety_stock >= probe.out.safety_stock
                      /\ more.reorder_point >= probe.out.reorder_point

\* calc ran on a row with demand and deviation, below the largest z and the
\* longest lead time, and gave a safety stock and a larger reorder point
C16_Witness ==
    /\ probe.fn = "calc"
    /\ probe.avg_d > 0 /\ probe.std_d > 0
    /\ probe.z = 1650 /\ probe.lt = 7
    /\ probe.out.safety_stock > 0
    /\ probe.out.reorder_point > probe.out.safety_stock
    /\ calc(probe.avg_d, probe.std_d, probe.stock_in_hand, 2330, 7).safety_stock
          > probe.out.safety_stock
    /\ calc(probe.avg_d, probe.std_d, probe.stock_in_hand, 1650, 14).reorder_point
          > probe.out.reorder_point

(* C17: every record of a reorder run has suggested_qty equal to            *)
(* max(0, reorder_point - stock_in_hand) for the stock_in_hand the same     *)
(* record reports, a negative balance and a product without movements       *)
(* included.                                                                *)
C17_SuggestedQtyFromReportedStock ==
    batch.kind = "reorders" =>
        \A i \in 1..Len(batch.results) :
            batch.results[i].suggested_qty =
                Max0(batch.results[i].reorder_point - batch.results[i].stock_in_hand)

C19_ConstantDemandIsLow ==
    (/\ probe.fn = "engine"
     /\ probe.avg_d = 10000 /\ probe.std_d = 0 /\ probe.stock_in_hand = 50
     /\ probe.lt = 7 /\ probe.z = 1650)
        => /\ probe.reorder.safety_stock = 0
           /\ probe.reorder.reorder_point = 70000
           /\ probe.reorder.suggested_qty = 20000
           /\ probe.out.safety_stock = 0
           /\ probe.out.stock_status = "LOW"

(* C19: a demand of 10 a day with deviation 0, a stock of 50, a lead time   *)
(* of 7 and z = 1.65 give safety stock 0, reorder point 70, a suggested     *)
(* quantity of 20 and the status HEALTHY (50 is not below the safety stock  *)
(* and at most 1.2 x optimal); the health score is                          *)
(* 100 - 100 * |50 - optimal| / optimal: 16.67 for the optimal level 300 of *)
(* a 30-day horizon, 71.43 for the optimal level 70 of a 7-day horizon.     *)
C19_ConstantDemandIsHealthy ==
    (/\ probe.fn = "engine"
     /\ probe.avg_d = 10000 /\ probe.std_d = 0 /\ probe.stock_in_hand = 50
     /\ probe.lt = 7 /\ probe.z = 1650)
        => /\ probe.reorder.safety_stock = 0
           /\ probe.reorder.reorder_point = 70000
           /\ probe.reorder.suggested_qty = 20000
           /\ probe.out.safety_stock = 0
           /\ probe.out.stock_status = "HEALTHY"
           /\ probe.out.current_stock = 50000
           /\ probe.horizon = 30 =>
                  /\ probe.out.optimal_stock_level = 300000
                  /\ probe.out.inventory_health_score = 1667
           /\ probe.horizon = 7 =>
                  /\ probe.out.optimal_stock_level = 70000
                  /\ probe.out.inventory_health_score = 7143

\* the engine ran on the product of the example over a 30-day horizon
C19_Witness ==
    /\ probe.fn = "engine"
    /\ probe.avg_d = 10000 /\ probe.std_d = 0 /\ probe.stock_in_hand = 50
    /\ probe.lt = 7 /\ probe.z = 1650 /\ probe.horizon = 30
    /\ probe.out.stock_status = "HEALTHY"
    /\ probe.reorder.suggested_qty = 20000

(* C20: every decision of an inventory run has safety_stock >= 0,           *)
(* optimal_stock_level >= 0 and a health score within [0, 100], whatever    *)
(* the stored forecasts, the balances, and the z and lead time of the       *)
(* request.                                                                 *)
C20_DecisionWithinRanges ==
    batch.kind = "inventory" =>
        \A i \in 1..Len(batch.results) :
            /\ batch.results[i].safety_stock >= 0
            /\ batch.results[i].optimal_stock_level >= 0
            /\ batch.results[i].inventory_health_score \in 0..10000

(* C21: for each product of an inventory run the average and the deviation  *)
(* of the demand both come from the forecast statistics when the product    *)
(* has forecast rows in the horizon, otherwise both from the recent sales   *)
(* when it has some, otherwise both are 0; the record reports that average. *)
C21_DemandFromOneSource ==
    (batch.kind = "inventory" /\ resp.code = 200) =>
        LET fc == batch.data.forecasts
            recent == batch.data.recent
            base == batch.data.base
        IN  /\ \A p \in DOMAIN base :
                  <<base[p].avg_daily_demand, base[p].std_daily_demand>> =
                      (IF p \in DOMAIN fc
                       THEN <<fc[p].avg_daily_fc, fc[p].std_daily_fc>>
                       ELSE IF p \in DOMAIN recent
                       THEN <<recent[p].avg_daily, recent[p].std_daily>>
                       ELSE <<0, 0>>)
            /\ \A i \in 1..Len(batch.results) :
                  batch.results[i].avg_daily_demand =
                      base[batch.results[i].product_id].avg_daily_demand

\* a run over a product with both sources, whose values differ, and a
\* product with recent sales only
C21_Witness ==
    /\ batch.kind = "inventory" /\ resp.code = 200
    /\ \E p \in DOMAIN batch.data.forecasts \cap DOMAIN batch.data.recent :
          /\ batch.data.forecasts[p].avg_daily_fc # batch.data.recent[p].avg_daily
          /\ batch.data.forecasts[p].std_daily_fc # batch.data.recent[p].std_daily
          /\ batch.data.base[p].std_daily_demand = batch.data.forecasts[p].std_daily_fc
    /\ \E p \in DOMAIN batch.data.recent : p \notin DOMAIN batch.data.forecasts

\* the inputs of a pricing row, recomputed from the lines it was given
ProbeCost == IF probe.cost_df # <<>> THEN probe.cost_df[1] ELSE 0
ProbeRecent ==
    (1000 * SumOver([i \in DOMAIN probe.grp |-> probe.grp[i].quantity],
                    DOMAIN probe.grp)) \div Len(probe.grp)
ProbeForecast == IF probe.fc_df # <<>> THEN probe.fc_df[1] ELSE ProbeRecent
ProbeElasticityFactor == 10000 - probe.elasticity
ProbeDemandFactor == 10000 + (500 * (ProbeForecast - ProbeRecent)) \div ProbeRecent

(* C22: the suggested price of a row is at least 1.20 x cost (cost 0 when   *)
(* unknown), to the cent; the elasticity factor lies in [0.7, 1.3] and the  *)
(* demand factor in [0.9, 1.1]; when the suggested price is above the floor *)
(* it lies between 0.63 x and 1.43 x the current price, to the cent.        *)
C22_SuggestedPriceBounded ==
    probe.fn = "pricing" =>
        LET ef == elasticity_factor(probe.elasticity)
            dfac == demand_factor(ProbeForecast, ProbeRecent)
        IN  /\ 100 * probe.out.suggested_price >= 120 * ProbeCost - 50
            /\ ef \in 7000..13000
            /\ dfac \in 9000..11000
            /\ ef = Clamp(ProbeElasticityFactor, 7000, 13000)
            /\ dfac = Clamp(ProbeDemandFactor, 9000, 11000)
            /\ 100 * probe.out.suggested_price > 120 * ProbeCost + 50 =>
                  /\ 100 * probe.out.suggested_price
                        >= 63 * probe.out.current_price - 50
                  /\ 100 * probe.out.suggested_price
                        <= 143 * probe.out.current_price + 50

\* a row whose factors are both at their upper bound and whose floor does
\* not bind: the suggested price is 1.43 x the current price
C22_Witness ==
    /\ probe.fn = "pricing"
    /\ ProbeCost > 0
    /\ ProbeElasticityFactor > 13000
    /\ ProbeDemandFactor > 11000
    /\ 100 * probe.out.suggested_price = 143 * probe.out.current_price
    /\ 100 * probe.out.suggested_price > 120 * ProbeCost + 50

\* the cost floor of a pricing row sets its suggested price
ProbeFloorActive ==
    floor_price(ProbeCost) >
        adjusted_price(probe.out.current_price, elasticity_factor(probe.elasticity),
                       demand_factor(ProbeForecast, ProbeRecent))

(* C23: the rationale of a row names the cost floor exactly when the floor, *)
(* not the adjusted current price, sets the suggested price; it names at    *)
(* most one of high and low elasticity and at most one of rising and weak   *)
(* demand, each exactly when it triggered; it is the default exactly when   *)
(* no signal triggered.                                                     *)
C23_RationaleListsTriggeredSignals ==
    probe.fn = "pricing" =>
        LET said == {probe.out.rationale[i] : i \in DOMAIN probe.out.rationale}
            high == probe.elasticity < -800
            low == probe.elasticity > -200
            rising == 10 * ProbeForecast > 11 * ProbeRecent
            weak == 10 * ProbeForecast < 9 * ProbeRecent
        IN  /\ "Cost floor" \in said <=> ProbeFloorActive
            /\ "High elasticity" \in said <=> high
            /\ "Low elasticity" \in said <=> low
            /\ "Rising demand" \in said <=> rising
            /\ "Weak demand" \in said <=> weak
            /\ ~("High elasticity" \in said /\ "Low elasticity" \in said)
            /\ ~("Rising demand" \in said /\ "Weak demand" \in said)
            /\ "Balanced factors" \in said <=>
                  ~(ProbeFloorActive \/ high \/ low \/ rising \/ weak)

(* C24: for every customer r, f and m lie in 1..5, clv_score is             *)
(* (r + f + m) / 15 x 100 to 2 decimals and lies in [0, 100], and the       *)
(* segment is Champions from 80, Loyal from 60, At Risk from 40, Churn Risk *)
(* from 20 and New below, a score on a threshold falling in the higher      *)
(* bucket.                                                                  *)
C24_ScoresAndSegments ==
    probe.fn = "segments" =>
        \A i \in DOMAIN probe.agg :
            LET row == probe.agg[i]
                sum == row.r_score + row.f_score + row.m_score
            IN  /\ row.r_score \in 1..5
                /\ row.f_score \in 1..5
                /\ row.m_score \in 1..5
                /\ row.clv_score \in 0..10000
                /\ 3 * row.clv_score - 2000 * sum \in -1..1
                /\ row.segment =
                      (CASE row.clv_score >= 8000 -> "Champions"
                         [] row.clv_score \in 6000..7999 -> "Loyal"
                         [] row.clv_score \in 4000..5999 -> "At Risk"
                         [] row.clv_score \in 2000..3999 -> "Churn Risk"
                         [] OTHER -> "New")
                /\ probe.out[i].clv_score = row.clv_score
                /\ probe.out[i].segment = row.segment

\* a run with a customer whose score is exactly 80, labeled Champions, and
\* a customer in another segment
C24_Witness ==
    /\ probe.fn = "segments"
    /\ \E i \in DOMAIN probe.agg :
          /\ probe.agg[i].clv_score = 8000
          /\ probe.agg[i].segment = "Champions"
    /\ \E i \in DOMAIN probe.agg : probe.agg[i].segment # "Champions"

(* C25: among 5 customers with distinct monetary values the customer with   *)
(* the highest value has m_score 5, the one with the lowest has 1, and      *)
(* m_score does not decrease as the monetary value grows.                   *)
C25_MonetaryQuantilesOrdered ==
    (/\ probe.fn = "segments"
     /\ Len(probe.agg) = 5
     /\ \A i, j \in DOMAIN probe.agg :
           i # j => probe.agg[i].monetary_value # probe.agg[j].monetary_value)
        => \A i \in DOMAIN probe.agg :
              /\ (\A j \in DOMAIN probe.agg :
                     probe.agg[j].monetary_value <= probe.agg[i].monetary_value)
                    => probe.agg[i].m_score = 5
              /\ (\A j \in DOMAIN probe.agg :
                     probe.agg[j].monetary_value >= probe.agg[i].monetary_value)
                    => probe.agg[i].m_score = 1
              /\ \A j \in DOMAIN probe.agg :
                     probe.agg[i].monetary_value < probe.agg[j].monetary_value
                        => probe.agg[i].m_score <= probe.agg[j].m_score

\* a run over 5 customers whose monetary values strictly increase
C25_Witness ==
    /\ probe.fn = "segments"
    /\ Len(probe.agg) = 5
    /\ \A i \in 1..4 : probe.agg[i].monetary_value < probe.agg[i + 1].monetary_value
    /\ probe.agg[1].m_score = 1
    /\ probe.agg[5].m_score = 5

\* the sold lines of the probed group
ProbeSold == SelectSeq(probe.grp, LAMBDA line : line.quantity > 0)

(* C26: every formula site returns its fallback on a degenerate input: a    *)
(* zero standard deviation gives z = 0; fewer than 2 usable sale lines or   *)
(* sale lines all at one price give the elasticity -1.0; a zero base gives  *)
(* the percentage change 100 for a positive value and 0 otherwise; an       *)
(* optimal stock below 1 gives the health score computed over 1.            *)
C26_DegenerateInputsFallBack ==
    /\ probe.fn = "z_score" /\ SumSqDev(probe.a) = 0 => probe.out = 0
    /\ (/\ probe.fn = "calc_price_elasticity"
        /\ \/ Len(probe.grp) < 2
           \/ Len(ProbeSold) < 2
           \/ \A i, j \in DOMAIN ProbeSold :
                  ProbeSold[i].unit_price = ProbeSold[j].unit_price)
          => probe.out = FALLBACK_ELASTICITY
    /\ probe.fn = "_safe_pct_change" /\ probe.old = 0 =>
          probe.out = IF probe.new > 0 THEN 10000 ELSE 0
    /\ probe.fn = "_health_score" /\ probe.optimal < 1000 =>
          probe.out = MaxOf({0, 10000 - 10 * Abs(probe.current - probe.optimal)})

StoredKeys(tbl, index_elements) == {[f \in index_elements |-> t[f]] : t \in tbl}

(* C28: no step removes a natural key from sku_demand_forecast or from      *)
(* sales_anomaly_event: a run of either endpoint only inserts rows or       *)
(* updates the rows it conflicts with.                                      *)
C28_StoredKeysNeverShrink ==
    [][/\ StoredKeys(sku_demand_forecast, ForecastIndex)
            \subseteq StoredKeys(sku_demand_forecast', ForecastIndex)
       /\ StoredKeys(sales_anomaly_event, AnomalyIndex)
            \subseteq StoredKeys(sales_anomaly_event', AnomalyIndex)]_vars

\* the last forecast run succeeded without emitting a date that is stored,
\* and the last anomaly run emitted nothing while events are stored
C28_Witness ==
    /\ batch.kind = "forecast"
    /\ batch.error = NoError
    /\ batch.results # <<>>
    /\ \E t \in sku_demand_forecast :
          \A r \in Range(batch.results) :
              t.product_id = r.product_id => t.forecast_date # r.forecast_date
    /\ anomalies.ran
    /\ anomalies.results = <<>>
    /\ sales_anomaly_event # {}

(* C29: after a run of optimize_inventory with the default service level,  *)
(* every decision reports the safety_stock that generate_reorder_suggestions *)
(* reports for the same product from the same stored forecast rows, lead    *)
(* time and horizon.                                                        *)
C29_SameSafetyStock ==
    (/\ batch.kind = "inventory"
     /\ batch.req.c # NoCompany
     /\ batch.req.w # NoWarehouse
     /\ batch.req.z = NoValue) =>
        LET reorders == generate_reorder_suggestions(batch.req.w, batch.req.z,
                                                     batch.req.lt, batch.req.days)
        IN  \A d \in Range(batch.results) : \A r \in Range(reorders) :
                d.product_id = r.product_id => d.safety_stock = r.safety_stock

\* the stored forecast rows of warehouse w dated in [today, today + days)
InWindow(w, days) ==
    {t \in sku_demand_forecast : /\ t.company_id = Company
                                 /\ t.warehouse_id = w
                                 /\ t.forecast_date >= today
                                 /\ t.forecast_date < today + days}

\* the products of warehouse w with a stock balance, sales or a forecast
Known(w, days) ==
    {p \in Products : \/ <<w, p>> \in Stocked
                      \/ <<w, p>> \in Keys /\ sales[<<w, p>>] > 0
                      \/ \E t \in InWindow(w, days) : t.product_id = p}

(* C30: a run of the reorder endpoint emits a suggestion only for products  *)
(* with a stored forecast row in the window, and with no such row it emits  *)
(* nothing, answers "ok" with count 0 and leaves reorder_suggestions as it  *)
(* was; a run of the inventory endpoint emits a decision for every product  *)
(* with a stock balance, sales or a forecast, stored forecasts or not.      *)
C30_ReordersNeedForecasts ==
    [][batch'.seq # batch.seq =>
        /\ batch'.kind = "reorders" =>
              LET window == InWindow(batch'.req.w, batch'.req.days)
              IN  /\ \A r \in Range(batch'.results) :
                        \E t \in window : t.product_id = r.product_id
                  /\ window = {} =>
                        /\ batch'.results = <<>>
                        /\ reorder_suggestions' = reorder_suggestions
                        /\ resp'.status = "ok" /\ resp'.count = 0
        /\ batch'.kind = "inventory" =>
              {d.product_id : d \in Range(batch'.results)}
                  = Known(batch'.req.w, batch'.req.days)]_vars

\* no forecast was ever stored: the last reorder run emitted and stored
\* nothing, and the inventory table holds the decision of a product that
\* has only a stock balance
C30_Witness ==
    /\ sku_demand_forecast = {}
    /\ batch.kind = "reorders"
    /\ batch.results = <<>>
    /\ resp.status = "ok"
    /\ reorder_suggestions = {}
    /\ \E d \in inventory_optimization :
          /\ <<d.warehouse_id, d.product_id>> \in Stocked
          /\ <<d.warehouse_id, d.product_id>> \notin Keys

====
